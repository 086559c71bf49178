--------------------------- MODULE FileRulesProofs ---------------------------
(***************************************************************************)
(* Which writes the monitor reports and which executions, for any disk, any *)
(* links, any protected paths and any time between the event and its check.*)
(***************************************************************************)
EXTENDS FileRules, SequenceTheorems, WellFoundedInduction, TLAPS

(* A set of numbers that has 0 and with each number the next one has all. *)
LEMMA EveryNumber ==
  ASSUME NEW T \in SUBSET Nat, 0 \in T, \A n \in T : n + 1 \in T
  PROVE  T = Nat
<1> SUFFICES ASSUME Nat \ T # {} PROVE FALSE
  OBVIOUS
<1>1. \E n \in Nat \ T : \A m \in Nat \ T : ~ (<<m, n>> \in OpToRel(<, Nat))
  BY NatLessThanWellFounded, WFMin
<1>2. PICK n \in Nat \ T : \A m \in Nat \ T : ~ (<<m, n>> \in OpToRel(<, Nat))
  BY <1>1
<1>3. \A m \in Nat \ T : ~ (m < n)
  BY <1>2 DEF OpToRel
<1>4. n - 1 \in Nat /\ n - 1 < n /\ (n - 1) + 1 = n
  OBVIOUS
<1>5. n - 1 \in T
  BY <1>3, <1>4
<1> QED BY <1>2, <1>4, <1>5

Parts == Names \cup {".."}

-----------------------------------------------------------------------------
(* The two recursive functions, step by step. *)
LEMMA TrailSteps ==
  ASSUME NEW to, NEW from, NEW comps, Len(comps) \in Nat
  PROVE  /\ Trail(to, from, comps)[0] = from
         /\ \A n \in 1..Len(comps) :
              Trail(to, from, comps)[n] = Step(to, Trail(to, from, comps)[n - 1], comps[n])
<1> DEFINE Next1(at, n) == IF n = 0 THEN from ELSE Step(to, at[n - 1], comps[n])
           Solves(at, k) == at = [n \in 0..k |-> Next1(at, n)]
           T == {k \in Nat : \E at : Solves(at, k)}
<1>1. 0 \in T
  <2>1. Solves([n \in 0..0 |-> from], 0)
    OBVIOUS
  <2> QED BY <2>1
<1>2. ASSUME NEW k \in T PROVE k + 1 \in T
  <2>1. PICK at : Solves(at, k)
    OBVIOUS
  <2> DEFINE new == Next1(at, k + 1)
             longer == [n \in 0..(k + 1) |-> IF n = k + 1 THEN new ELSE at[n]]
  <2>2. longer = [n \in 0..(k + 1) |-> Next1(longer, n)]
    <3>1. ASSUME NEW n \in 0..(k + 1) PROVE longer[n] = Next1(longer, n)
      <4>1. CASE n = 0
        BY <2>1, <4>1
      <4>2. CASE n # 0
        <5>1. n - 1 \in 0..k /\ longer[n - 1] = at[n - 1]
          BY <4>2
        <5>2. n # k + 1 => n \in 0..k
          OBVIOUS
        <5> QED BY <2>1, <4>2, <5>1, <5>2
      <4> QED BY <4>1, <4>2
    <3> QED BY <3>1
  <2>3. Solves(longer, k + 1)
    BY <2>2
  <2> HIDE DEF Solves, longer
  <2> QED BY <2>3
<1> HIDE DEF T
<1>3. T = Nat
  <2>1. T \in SUBSET Nat
    BY DEF T
  <2> QED BY <1>1, <1>2, <2>1, EveryNumber
<1>4. \E at : Solves(at, Len(comps))
  BY <1>3 DEF T
<1>5. Trail(to, from, comps) = CHOOSE at : Solves(at, Len(comps))
  BY DEF Trail
<1>6. Solves(Trail(to, from, comps), Len(comps))
  BY <1>4, <1>5
<1> DEFINE at == Trail(to, from, comps)
<1> HIDE DEF at
<1>7. Solves(at, Len(comps))
  BY <1>6 DEF at
<1>8. at[0] = from
  BY <1>7
<1>9. ASSUME NEW n \in 1..Len(comps) PROVE at[n] = Step(to, at[n - 1], comps[n])
  BY <1>7
<1> QED BY <1>8, <1>9 DEF at

LEMMA CleanedSteps ==
  ASSUME NEW abs, NEW comps, Len(comps) \in Nat
  PROVE  /\ Cleaned(abs, comps)[0] = <<>>
         /\ \A n \in 1..Len(comps) :
              Cleaned(abs, comps)[n] = Put(abs, Cleaned(abs, comps)[n - 1], comps[n])
<1> DEFINE Next1(out, n) == IF n = 0 THEN <<>> ELSE Put(abs, out[n - 1], comps[n])
           Solves(out, k) == out = [n \in 0..k |-> Next1(out, n)]
           T == {k \in Nat : \E out : Solves(out, k)}
<1>1. 0 \in T
  <2>1. Solves([n \in 0..0 |-> <<>>], 0)
    OBVIOUS
  <2> QED BY <2>1
<1>2. ASSUME NEW k \in T PROVE k + 1 \in T
  <2>1. PICK out : Solves(out, k)
    OBVIOUS
  <2> DEFINE new == Next1(out, k + 1)
             longer == [n \in 0..(k + 1) |-> IF n = k + 1 THEN new ELSE out[n]]
  <2>2. longer = [n \in 0..(k + 1) |-> Next1(longer, n)]
    <3>1. ASSUME NEW n \in 0..(k + 1) PROVE longer[n] = Next1(longer, n)
      <4>1. CASE n = 0
        BY <2>1, <4>1
      <4>2. CASE n # 0
        <5>1. n - 1 \in 0..k /\ longer[n - 1] = out[n - 1]
          BY <4>2
        <5>2. n # k + 1 => n \in 0..k
          OBVIOUS
        <5> QED BY <2>1, <4>2, <5>1, <5>2
      <4> QED BY <4>1, <4>2
    <3> QED BY <3>1
  <2>3. Solves(longer, k + 1)
    BY <2>2
  <2> HIDE DEF Solves, longer
  <2> QED BY <2>3
<1> HIDE DEF T
<1>3. T = Nat
  <2>1. T \in SUBSET Nat
    BY DEF T
  <2> QED BY <1>1, <1>2, <2>1, EveryNumber
<1>4. \E out : Solves(out, Len(comps))
  BY <1>3 DEF T
<1>5. Cleaned(abs, comps) = CHOOSE out : Solves(out, Len(comps))
  BY DEF Cleaned
<1>6. Solves(Cleaned(abs, comps), Len(comps))
  BY <1>4, <1>5
<1> DEFINE out == Cleaned(abs, comps)
<1> HIDE DEF out
<1>7. Solves(out, Len(comps))
  BY <1>6 DEF out
<1>8. out[0] = <<>>
  BY <1>7
<1>9. ASSUME NEW n \in 1..Len(comps) PROVE out[n] = Put(abs, out[n - 1], comps[n])
  BY <1>7
<1> QED BY <1>8, <1>9 DEF out

-----------------------------------------------------------------------------
(* Sequences. *)
LEMMA Appended ==
  ASSUME NEW S, NEW s \in Seq(S), NEW e \in S
  PROVE  /\ Append(s, e) \in Seq(S) /\ Append(s, e) # <<>> /\ Len(Append(s, e)) = Len(s) + 1
         /\ \A i \in 1..Len(s) : Append(s, e)[i] = s[i]
         /\ Front(Append(s, e)) = s /\ Last(Append(s, e)) = e
<1>1. /\ Append(s, e) \in Seq(S) /\ Append(s, e) # <<>> /\ Len(Append(s, e)) = Len(s) + 1
      /\ \A i \in 1..Len(s) : Append(s, e)[i] = s[i]
      /\ Append(s, e)[Len(s) + 1] = e
  BY AppendProperties
<1> DEFINE t == Append(s, e)
<1> HIDE DEF t
<1>2. /\ Front(t) \in Seq(S) /\ Len(Front(t)) = Len(t) - 1 /\ \A i \in 1..(Len(t) - 1) : Front(t)[i] = t[i]
  BY <1>1, SubSeqProperties DEF t, Front
<1>3. Front(t) = s
  BY <1>1, <1>2, SeqEqual DEF t
<1> QED BY <1>1, <1>3 DEF t, Last

LEMMA Fronted ==
  ASSUME NEW S, NEW s \in Seq(S), s # <<>>
  PROVE  /\ Len(s) \in Nat \ {0} /\ Front(s) \in Seq(S) /\ Len(Front(s)) = Len(s) - 1
         /\ \A i \in 1..(Len(s) - 1) : Front(s)[i] = s[i]
         /\ Last(s) \in S /\ Last(s) = s[Len(s)] /\ Append(Front(s), Last(s)) = s
<1>1. Len(s) \in Nat \ {0}
  BY EmptySeq
<1>2. /\ Front(s) \in Seq(S) /\ Len(Front(s)) = Len(s) - 1
      /\ \A i \in 1..(Len(s) - 1) : Front(s)[i] = s[i]
  <2> DEFINE n == Len(s) - 1
  <2>1. n \in Nat /\ Len(s) = n + 1
    BY <1>1
  <2>2. \A i \in 1..n : s[i] \in S
    BY <2>1
  <2> HIDE DEF n
  <2>3. /\ SubSeq(s, 1, n) \in Seq(S) /\ Len(SubSeq(s, 1, n)) = n
        /\ \A i \in 1..n : SubSeq(s, 1, n)[i] = s[i]
    BY <2>1, <2>2, SubSeqProperties
  <2> QED BY <2>3 DEF n, Front
<1>3. Last(s) \in S /\ Last(s) = s[Len(s)]
  BY <1>1 DEF Last
<1> DEFINE f == Front(s)
           l == Last(s)
<1> HIDE DEF f, l
<1>4. /\ Append(f, l) \in Seq(S) /\ Len(Append(f, l)) = Len(f) + 1
      /\ \A i \in 1..Len(f) : Append(f, l)[i] = f[i]
      /\ Append(f, l)[Len(f) + 1] = l
  BY <1>2, <1>3, AppendProperties DEF f, l
<1>5. Append(f, l) = s
  BY <1>1, <1>2, <1>3, <1>4, SeqEqual DEF f, l
<1> QED BY <1>1, <1>2, <1>3, <1>5 DEF f, l

LEMMA OneMore ==
  ASSUME NEW S, NEW q \in Seq(S), NEW n \in Nat, n + 1 <= Len(q)
  PROVE  SubSeq(q, 1, n + 1) = Append(SubSeq(q, 1, n), q[n + 1])
<1> DEFINE s == SubSeq(q, 1, n)
           t == SubSeq(q, 1, n + 1)
           c == q[n + 1]
<1>1. (\A i \in 1..n : q[i] \in S) /\ (\A i \in 1..(n + 1) : q[i] \in S) /\ c \in S
  OBVIOUS
<1>2. s \in Seq(S) /\ Len(s) = n /\ \A i \in 1..n : s[i] = q[i]
  BY <1>1, SubSeqProperties
<1>3. t \in Seq(S) /\ Len(t) = n + 1 /\ \A i \in 1..(n + 1) : t[i] = q[i]
  BY <1>1, SubSeqProperties
<1> HIDE DEF s, t
<1>4. /\ Append(s, c) \in Seq(S) /\ Len(Append(s, c)) = n + 1
      /\ \A i \in 1..n : Append(s, c)[i] = s[i]
      /\ Append(s, c)[n + 1] = c
  BY <1>1, <1>2, AppendProperties
<1>5. t = Append(s, c)
  BY <1>2, <1>3, <1>4, SeqEqual
<1> QED BY <1>5 DEF s, t

LEMMA PrefixIs ==
  ASSUME NEW S, NEW s \in Seq(S), NEW t \in Seq(S)
  PROVE  IsPrefix(s, t) <=> Len(s) <= Len(t) /\ \A i \in 1..Len(s) : s[i] = t[i]
<1>1. SubSeq(s, 1, Len(s)) = s
  BY SubSeqFull
<1>2. CASE Len(s) <= Len(t)
  <2> DEFINE n == Len(s)
             u == SubSeq(t, 1, n)
  <2>0. n \in Nat /\ n <= Len(t) /\ Len(t) \in Nat
    BY <1>2
  <2> HIDE DEF n
  <2>1. u \in Seq(S) /\ Len(u) = n /\ \A i \in 1..n : u[i] = t[i]
    BY <2>0, SubSeqProperties
  <2> HIDE DEF u
  <2>2. s = u <=> \A i \in 1..n : s[i] = t[i]
    BY <2>1, SeqEqual DEF n
  <2> QED BY <1>1, <1>2, <2>2 DEF n, u, IsPrefix
<1>3. CASE ~ Len(s) <= Len(t)
  BY <1>3 DEF IsPrefix
<1> QED BY <1>2, <1>3

LEMMA ShorterPrefix ==
  ASSUME NEW S, NEW f \in Seq(S), NEW x \in S, NEW t \in Seq(S), IsPrefix(Append(f, x), t)
  PROVE  IsPrefix(f, t) /\ Len(f) < Len(t) /\ f # t
<1> DEFINE s == Append(f, x)
<1>1. s \in Seq(S) /\ Len(s) = Len(f) + 1 /\ \A i \in 1..Len(f) : s[i] = f[i]
  BY Appended
<1>2. IsPrefix(s, t)
  OBVIOUS
<1> HIDE DEF s
<1>3. Len(s) <= Len(t) /\ \A i \in 1..Len(s) : s[i] = t[i]
  BY <1>1, <1>2, PrefixIs
<1>4. Len(f) <= Len(t) /\ Len(f) < Len(t) /\ \A i \in 1..Len(f) : f[i] = t[i]
  BY <1>1, <1>3
<1> QED BY <1>4, PrefixIs

-----------------------------------------------------------------------------
(* A walk depends on the components it has taken only. *)
LEMMA SameTrail ==
  ASSUME NEW to, NEW from, NEW a, NEW b, Len(a) \in Nat, Len(b) \in Nat,
         NEW k \in Nat, k <= Len(a), k <= Len(b), \A i \in 1..k : a[i] = b[i]
  PROVE  \A n \in 0..k : Trail(to, from, a)[n] = Trail(to, from, b)[n]
<1> DEFINE x == Trail(to, from, a)
           y == Trail(to, from, b)
           T == {n \in Nat : n <= k => x[n] = y[n]}
<1>1. x[0] = from /\ \A n \in 1..Len(a) : x[n] = Step(to, x[n - 1], a[n])
  BY TrailSteps
<1>2. y[0] = from /\ \A n \in 1..Len(b) : y[n] = Step(to, y[n - 1], b[n])
  BY TrailSteps
<1> HIDE DEF x, y
<1>3. 0 \in T
  BY <1>1, <1>2
<1>4. ASSUME NEW n \in T PROVE n + 1 \in T
  <2> SUFFICES ASSUME n + 1 <= k PROVE x[n + 1] = y[n + 1]
    OBVIOUS
  <2>1. n + 1 \in 1..Len(a) /\ n + 1 \in 1..Len(b) /\ (n + 1) - 1 = n /\ n <= k /\ n + 1 \in 1..k
    OBVIOUS
  <2> QED BY <1>1, <1>2, <2>1
<1>5. T = Nat
  <2>1. T \in SUBSET Nat
    OBVIOUS
  <2> HIDE DEF T
  <2> QED BY <1>3, <1>4, <2>1, EveryNumber
<1>6. \A n \in 0..k : x[n] = y[n]
  BY <1>5
<1> QED BY <1>6 DEF x, y

LEMMA SameLinks ==
  ASSUME NEW from, NEW a, NEW b, Len(a) \in Nat, Len(b) \in Nat,
         NEW k \in Nat, k <= Len(a), k <= Len(b), \A i \in 1..k : a[i] = b[i]
  PROVE  ThroughLink(from, a, k) <=> ThroughLink(from, b, k)
<1>1. \A n \in 0..k : Trail(link, from, a)[n] = Trail(link, from, b)[n]
  BY SameTrail
<1>2. \A i \in 1..k : i - 1 \in 0..k
  OBVIOUS
<1>3. \A i \in 1..k : Trail(link, from, a)[i - 1] = Trail(link, from, b)[i - 1] /\ a[i] = b[i]
  BY <1>1, <1>2
<1> QED BY <1>3 DEF ThroughLink

LEMMA Ground ==
  /\ <<>> \in Dirs /\ Cwd \in Dirs /\ \A cwd \in Cwds : cwd \in Dirs
  /\ Dirs \subseteq Seq(Names) /\ Links \subseteq Seq(Names) /\ Targets \subseteq Seq(Names)
  /\ InitFiles \subseteq Seq(Names) /\ Nowhere \notin Seq(Names) /\ ".." \notin Names
  /\ Names \subseteq Parts /\ Seq(Names) \subseteq Seq(Parts)
  /\ \A d \in Dirs \cup Links \cup Targets : d # <<>> => Front(d) \in Dirs
  /\ Links \cap Dirs = {} /\ Links \cap Targets = {} /\ Links \cap InitFiles = {} /\ InitFiles \cap Dirs = {}
BY RulesAssumption DEF Places, Parts

-----------------------------------------------------------------------------
(* A place the kernel can be at: no link, in a directory. *)
Real(q) == q \in Seq(Names) /\ ~ IsLink(q) /\ (q # <<>> => Front(q) \in Dirs)

LinkType == link \in [Links -> Targets \cup {Nowhere}]

LEMMA DirReal ==
  ASSUME NEW d \in Dirs
  PROVE  Real(d)
BY Ground DEF Real, IsLink, LeadsOn

LEMMA StepReal ==
  ASSUME LinkType, NEW place \in Dirs, NEW name \in Parts
  PROVE  /\ Real(Step(link, place, name)) /\ Step(link, place, name) # Nowhere
         /\ name = ".." => Step(link, place, name) \in Dirs
<1>1. CASE name = ".."
  <2>1. Step(link, place, name) \in Dirs
    BY <1>1, Ground DEF Step
  <2> QED BY <2>1, DirReal, Ground
<1>2. CASE name # ".."
  <2>0. name \in Names /\ place \in Seq(Names)
    BY <1>2, Ground DEF Parts
  <2> DEFINE q == Append(place, name)
  <2>1. q \in Seq(Names) /\ Front(q) = place
    BY <2>0, Appended
  <2> HIDE DEF q
  <2>2. Step(link, place, name) = IF LeadsOn(link, q) THEN link[q] ELSE q
    BY <1>2 DEF Step, q
  <2>3. CASE LeadsOn(link, q)
    <3>1. link[q] \in Targets
      BY <2>3 DEF LeadsOn, LinkType
    <3>2. Real(link[q]) /\ link[q] # Nowhere
      BY <3>1, Ground DEF Real, IsLink, LeadsOn
    <3> QED BY <1>2, <2>2, <2>3, <3>2
  <2>4. CASE ~ LeadsOn(link, q)
    <3>1. Real(q) /\ q # Nowhere
      BY <2>1, <2>4, Ground DEF Real, IsLink
    <3> QED BY <1>2, <2>2, <2>4, <3>1
  <2> QED BY <2>3, <2>4
<1> QED BY <1>1, <1>2

LEMMA WalkReal ==
  ASSUME LinkType, NEW from \in Dirs, NEW comps \in Seq(Parts)
  PROVE  \A n \in 0..Len(comps) : Trail(link, from, comps)[n] # Nowhere =>
           /\ Real(Trail(link, from, comps)[n])
           /\ \A m \in 0..(n - 1) : Trail(link, from, comps)[m] \in Dirs
<1> DEFINE at == Trail(link, from, comps)
           Good(n) == at[n] # Nowhere => Real(at[n]) /\ \A m \in 0..(n - 1) : at[m] \in Dirs
           T == {n \in Nat : n <= Len(comps) => Good(n)}
<1>1. at[0] = from /\ \A n \in 1..Len(comps) : at[n] = Step(link, at[n - 1], comps[n])
  BY TrailSteps
<1> HIDE DEF at
<1>2. 0 \in T
  BY <1>1, DirReal
<1>3. ASSUME NEW n \in T PROVE n + 1 \in T
  <2> SUFFICES ASSUME n + 1 <= Len(comps), at[n + 1] # Nowhere
               PROVE  Real(at[n + 1]) /\ \A m \in 0..n : at[m] \in Dirs
    OBVIOUS
  <2>1. n + 1 \in 1..Len(comps) /\ (n + 1) - 1 = n /\ n <= Len(comps) /\ comps[n + 1] \in Parts
    OBVIOUS
  <2>2. at[n + 1] = Step(link, at[n], comps[n + 1])
    BY <1>1, <2>1
  <2>3. at[n] \in Dirs
    BY <2>2 DEF Step
  <2>4. at[n] # Nowhere
    BY <2>3, Ground
  <2>5. \A m \in 0..(n - 1) : at[m] \in Dirs
    BY <2>1, <2>4
  <2>6. Real(at[n + 1])
    BY <2>1, <2>2, <2>3, StepReal
  <2>7. \A m \in 0..n : m = n \/ m \in 0..(n - 1)
    OBVIOUS
  <2> QED BY <2>3, <2>5, <2>6, <2>7
<1>4. T = Nat
  <2>1. T \in SUBSET Nat
    OBVIOUS
  <2> HIDE DEF T
  <2> QED BY <1>2, <1>3, <2>1, EveryNumber
<1>5. \A n \in 0..Len(comps) : Good(n)
  <2> HIDE DEF Good
  <2> QED BY <1>4
<1> QED BY <1>5 DEF at

(* The directories on the way to a place are its prefixes. *)
LEMMA OnTheWay ==
  ASSUME NEW q \in Seq(Names), q # <<>> => Front(q) \in Dirs
  PROVE  \A n \in 0..(Len(q) - 1) : SubSeq(q, 1, n) \in Dirs
<1> DEFINE len == Len(q)
           T == {k \in Nat : k + 1 <= len => SubSeq(q, 1, len - 1 - k) \in Dirs}
<1>0. len \in Nat
  OBVIOUS
<1>1. 0 \in T
  <2> SUFFICES ASSUME 1 <= len PROVE SubSeq(q, 1, len - 1) \in Dirs
    OBVIOUS
  <2>1. q # <<>>
    OBVIOUS
  <2> QED BY <2>1 DEF Front
<1>2. ASSUME NEW k \in T PROVE k + 1 \in T
  <2> DEFINE m == len - 1 - k
             d == SubSeq(q, 1, m)
  <2> SUFFICES ASSUME k + 2 <= len PROVE SubSeq(q, 1, m - 1) \in Dirs
    BY <1>0
  <2>1. m \in Nat /\ m >= 1 /\ m <= len /\ m - 1 \in Nat
    BY <1>0
  <2>2. d \in Dirs
    BY <1>0
  <2>3. \A i \in 1..m : q[i] \in Names
    BY <2>1
  <2> HIDE DEF m
  <2>4. d \in Seq(Names) /\ Len(d) = m /\ \A i \in 1..m : d[i] = q[i]
    BY <2>1, <2>3, SubSeqProperties
  <2>5. \A i \in 1..(m - 1) : q[i] \in Names
    BY <2>1, <2>3
  <2>6. /\ SubSeq(q, 1, m - 1) \in Seq(Names) /\ Len(SubSeq(q, 1, m - 1)) = m - 1
        /\ \A i \in 1..(m - 1) : SubSeq(q, 1, m - 1)[i] = q[i]
    BY <2>1, <2>5, SubSeqProperties
  <2> DEFINE shorter == SubSeq(q, 1, m - 1)
  <2> HIDE DEF d, shorter
  <2>7. d # <<>>
    BY <2>1, <2>4
  <2>8. /\ Front(d) \in Seq(Names) /\ Len(Front(d)) = m - 1
        /\ \A i \in 1..(m - 1) : Front(d)[i] = d[i]
    BY <2>4, <2>7, Fronted
  <2>9. Front(d) \in Dirs
    BY <2>2, <2>7, Ground
  <2>10. /\ shorter \in Seq(Names) /\ Len(shorter) = m - 1 /\ \A i \in 1..(m - 1) : shorter[i] = q[i]
    BY <2>6 DEF shorter
  <2>11. shorter = Front(d)
    BY <2>1, <2>4, <2>8, <2>10, SeqEqual
  <2> QED BY <2>9, <2>11 DEF shorter
<1>3. T = Nat
  <2>1. T \in SUBSET Nat
    OBVIOUS
  <2> HIDE DEF T
  <2> QED BY <1>1, <1>2, <2>1, EveryNumber
<1>4. ASSUME NEW n \in 0..(len - 1) PROVE SubSeq(q, 1, n) \in Dirs
  <2>1. len - 1 - n \in Nat /\ (len - 1 - n) + 1 <= len /\ len - 1 - (len - 1 - n) = n
    BY <1>0
  <2> QED BY <1>3, <2>1
<1> QED BY <1>4

LEMMA PrefixReal ==
  ASSUME NEW q \in Seq(Names), q # <<>> => Front(q) \in Dirs, NEW p \in Seq(Names), IsPrefix(p, q)
  PROVE  p = q \/ p \in Dirs
<1>1. Len(p) <= Len(q) /\ \A i \in 1..Len(p) : p[i] = q[i]
  BY PrefixIs
<1>2. CASE Len(p) = Len(q)
  BY <1>1, <1>2, SeqEqual
<1>3. CASE Len(p) # Len(q)
  <2> DEFINE n == Len(p)
  <2>1. n \in 0..(Len(q) - 1)
    BY <1>1, <1>3
  <2>2. SubSeq(q, 1, n) \in Dirs
    BY <2>1, OnTheWay
  <2>3. p = SubSeq(q, 1, n)
    BY SubSeqFull DEF IsPrefix
  <2> QED BY <2>2, <2>3
<1> QED BY <1>2, <1>3

LEMMA WalkLast ==
  ASSUME NEW from, NEW comps \in Seq(Parts), comps # <<>>
  PROVE  /\ Walk(from, comps) = Step(link, Walk(from, Front(comps)), Last(comps))
         /\ Trail(link, from, comps)[Len(comps) - 1] = Walk(from, Front(comps))
         /\ ThroughLink(from, comps, Len(comps)) <=>
              \/ ThroughLink(from, Front(comps), Len(Front(comps)))
              \/ /\ Walk(from, Front(comps)) \in Dirs
                 /\ IsLink(Append(Walk(from, Front(comps)), Last(comps)))
<1> DEFINE f == Front(comps)
           len == Len(comps)
           k == Len(f)
<1>1. /\ len \in Nat \ {0} /\ f \in Seq(Parts) /\ k = len - 1 /\ \A i \in 1..(len - 1) : f[i] = comps[i]
      /\ Last(comps) = comps[len]
  BY Fronted
<1> HIDE DEF f, len
<1>2. k \in Nat /\ Len(comps) \in Nat /\ k <= Len(comps) /\ \A i \in 1..k : comps[i] = f[i]
  BY <1>1 DEF len
<1>3. \A n \in 0..k : Trail(link, from, comps)[n] = Trail(link, from, f)[n]
  BY <1>2, SameTrail
<1>4. Trail(link, from, comps)[len - 1] = Walk(from, f)
  BY <1>1, <1>2, <1>3 DEF Walk
<1>5. Trail(link, from, comps)[len] = Step(link, Trail(link, from, comps)[len - 1], comps[len])
  BY <1>1, TrailSteps DEF len
<1>6. ThroughLink(from, comps, k) <=> ThroughLink(from, f, k)
  BY <1>2, SameLinks
<1>7. ThroughLink(from, comps, len) <=>
        \/ ThroughLink(from, comps, k)
        \/ Walk(from, f) \in Dirs /\ IsLink(Append(Walk(from, f), comps[len]))
  <2>1. \A i \in 1..len : i \in 1..k \/ i = len
    BY <1>1
  <2>2. len \in 1..len /\ \A i \in 1..k : i \in 1..len
    BY <1>1
  <2> QED BY <1>4, <2>1, <2>2 DEF ThroughLink
<1> QED BY <1>1, <1>4, <1>5, <1>6, <1>7 DEF f, len, Walk

LEMMA WalkAppend ==
  ASSUME NEW from, NEW s \in Seq(Parts), NEW c \in Parts
  PROVE  /\ Walk(from, Append(s, c)) = Step(link, Walk(from, s), c)
         /\ ThroughLink(from, Append(s, c), Len(Append(s, c))) <=>
              \/ ThroughLink(from, s, Len(s))
              \/ Walk(from, s) \in Dirs /\ IsLink(Append(Walk(from, s), c))
<1> DEFINE t == Append(s, c)
<1>1. t \in Seq(Parts) /\ t # <<>> /\ Front(t) = s /\ Last(t) = c
  BY Appended
<1> HIDE DEF t
<1>2. /\ Walk(from, t) = Step(link, Walk(from, Front(t)), Last(t))
      /\ ThroughLink(from, t, Len(t)) <=>
           \/ ThroughLink(from, Front(t), Len(Front(t)))
           \/ /\ Walk(from, Front(t)) \in Dirs
              /\ IsLink(Append(Walk(from, Front(t)), Last(t)))
  BY <1>1, WalkLast
<1> QED BY <1>1, <1>2 DEF t

LEMMA WalkNone ==
  ASSUME NEW from
  PROVE  Walk(from, <<>>) = from /\ ~ ThroughLink(from, <<>>, 0)
<1>1. Len(<<>>) = 0
  OBVIOUS
<1> QED BY <1>1, TrailSteps DEF Walk, ThroughLink

(* A place is reached by its own components. *)
LEMMA RealWalk ==
  ASSUME NEW q \in Seq(Names), q # <<>> => Front(q) \in Dirs
  PROVE  /\ Walk(<<>>, q) = IF IsLink(q) THEN link[q] ELSE q
         /\ q # <<>> => Walk(<<>>, Front(q)) = Front(q)
         /\ \A n \in 0..(Len(q) - 1) : Trail(link, <<>>, q)[n] = SubSeq(q, 1, n)
<1> DEFINE at == Trail(link, <<>>, q)
           T == {n \in Nat : n + 1 <= Len(q) => at[n] = SubSeq(q, 1, n)}
<1>1. at[0] = <<>> /\ \A n \in 1..Len(q) : at[n] = Step(link, at[n - 1], q[n])
  BY TrailSteps
<1> HIDE DEF at
<1>2. 0 \in T
  <2>1. SubSeq(q, 1, 0) = <<>>
    BY SubSeqEmpty
  <2> QED BY <1>1, <2>1
<1>3. ASSUME NEW n \in Nat, n + 1 <= Len(q), at[n] = SubSeq(q, 1, n)
      PROVE  /\ at[n + 1] = IF LeadsOn(link, SubSeq(q, 1, n + 1)) THEN link[SubSeq(q, 1, n + 1)]
                                                                 ELSE SubSeq(q, 1, n + 1)
  <2>1. n + 1 \in 1..Len(q) /\ (n + 1) - 1 = n /\ n \in 0..(Len(q) - 1) /\ q[n + 1] \in Names
    BY <1>3
  <2>2. SubSeq(q, 1, n) \in Dirs
    BY <2>1, OnTheWay
  <2>3. SubSeq(q, 1, n + 1) = Append(SubSeq(q, 1, n), q[n + 1])
    BY <1>3, OneMore
  <2>4. at[n + 1] = Step(link, SubSeq(q, 1, n), q[n + 1])
    BY <1>1, <1>3, <2>1
  <2>5. q[n + 1] # ".."
    BY <2>1, Ground
  <2> QED BY <2>2, <2>3, <2>4, <2>5 DEF Step
<1>4. ASSUME NEW n \in T PROVE n + 1 \in T
  <2> SUFFICES ASSUME (n + 1) + 1 <= Len(q) PROVE at[n + 1] = SubSeq(q, 1, n + 1)
    OBVIOUS
  <2>1. n \in Nat /\ n + 1 <= Len(q) /\ at[n] = SubSeq(q, 1, n) /\ n + 1 \in 0..(Len(q) - 1)
    OBVIOUS
  <2>2. SubSeq(q, 1, n + 1) \in Dirs
    BY <2>1, OnTheWay
  <2>3. ~ LeadsOn(link, SubSeq(q, 1, n + 1))
    BY <2>2, Ground DEF LeadsOn
  <2> QED BY <1>3, <2>1, <2>3
<1>5. T = Nat
  <2>1. T \in SUBSET Nat
    OBVIOUS
  <2> HIDE DEF T
  <2> QED BY <1>2, <1>4, <2>1, EveryNumber
<1>6. ASSUME NEW n \in 0..(Len(q) - 1) PROVE at[n] = SubSeq(q, 1, n)
  <2>1. n \in Nat /\ n + 1 <= Len(q)
    OBVIOUS
  <2> QED BY <1>5, <2>1
<1>7. CASE q = <<>>
  BY <1>6, <1>7, WalkNone, Ground DEF at, IsLink, LeadsOn
<1>8. CASE q # <<>>
  <2> DEFINE n == Len(q) - 1
  <2>1. n \in Nat /\ n + 1 = Len(q) /\ n \in 0..(Len(q) - 1)
    BY <1>8, EmptySeq
  <2>2. at[n] = SubSeq(q, 1, n)
    BY <1>6, <2>1
  <2>3. SubSeq(q, 1, n + 1) = q
    <3>1. SubSeq(q, 1, Len(q)) = q
      BY SubSeqFull
    <3> QED BY <2>1, <3>1
  <2>4. at[n + 1] = IF LeadsOn(link, q) THEN link[q] ELSE q
    <3> HIDE DEF n
    <3>1. n \in Nat /\ n + 1 <= Len(q)
      BY <2>1
    <3>2. at[n + 1] = IF LeadsOn(link, SubSeq(q, 1, n + 1)) THEN link[SubSeq(q, 1, n + 1)]
                                                           ELSE SubSeq(q, 1, n + 1)
      BY <1>3, <2>2, <3>1
    <3> QED BY <2>3, <3>2
  <2>5. Walk(<<>>, q) = IF IsLink(q) THEN link[q] ELSE q
    BY <2>1, <2>4 DEF Walk, at, IsLink
  <2>6. Walk(<<>>, Front(q)) = at[n]
    BY <1>8, WalkLast, Ground DEF at
  <2>7. Walk(<<>>, Front(q)) = Front(q)
    BY <2>2, <2>6 DEF Front
  <2> QED BY <1>6, <2>5, <2>7 DEF at
<1> QED BY <1>7, <1>8

LEMMA WalkThere ==
  ASSUME NEW q \in Seq(Names), q # <<>> => Front(q) \in Dirs, NEW comps \in Seq(Parts), IsPrefix(q, comps)
  PROVE  /\ Len(q) \in 0..Len(comps)
         /\ Trail(link, <<>>, comps)[Len(q)] = IF IsLink(q) THEN link[q] ELSE q
<1> DEFINE k == Len(q)
<1>1. q \in Seq(Parts) /\ k \in Nat /\ Len(comps) \in Nat
  BY Ground
<1>2. k <= Len(comps) /\ \A i \in 1..k : q[i] = comps[i]
  BY <1>1, PrefixIs
<1>3. \A n \in 0..k : Trail(link, <<>>, q)[n] = Trail(link, <<>>, comps)[n]
  <2>1. k <= Len(q)
    BY <1>1
  <2> QED BY <1>1, <1>2, <2>1, SameTrail
<1>4. Trail(link, <<>>, comps)[k] = Walk(<<>>, q)
  BY <1>1, <1>3 DEF Walk
<1> QED BY <1>1, <1>2, <1>4, RealWalk

-----------------------------------------------------------------------------
(* filepath.Clean. *)
LEMMA CleanedType ==
  ASSUME NEW abs \in BOOLEAN, NEW comps \in Seq(Parts)
  PROVE  \A n \in 0..Len(comps) : /\ Cleaned(abs, comps)[n] \in Seq(Parts)
                                  /\ abs => Cleaned(abs, comps)[n] \in Seq(Names)
<1> DEFINE out == Cleaned(abs, comps)
           Good(s) == s \in Seq(Parts) /\ (abs => s \in Seq(Names))
           T == {n \in Nat : n <= Len(comps) => Good(out[n])}
<1>1. out[0] = <<>> /\ \A n \in 1..Len(comps) : out[n] = Put(abs, out[n - 1], comps[n])
  BY CleanedSteps
<1> HIDE DEF out
<1>2. 0 \in T
  <2>1. Good(<<>>)
    OBVIOUS
  <2> HIDE DEF Good
  <2> QED BY <1>1, <2>1
<1>3. ASSUME NEW s, Good(s), NEW c \in Parts PROVE Good(Put(abs, s, c))
  <2>1. CASE c # ".."
    <3>1. c \in Names
      BY <2>1 DEF Parts
    <3> QED BY <1>3, <2>1, <3>1, Appended DEF Put
  <2>2. CASE c = ".." /\ s # <<>> /\ Last(s) # ".."
    BY <1>3, <2>2, Fronted DEF Put
  <2>3. CASE c = ".." /\ ~ (s # <<>> /\ Last(s) # "..") /\ abs
    BY <1>3, <2>3 DEF Put
  <2>4. CASE c = ".." /\ ~ (s # <<>> /\ Last(s) # "..") /\ ~ abs
    BY <1>3, <2>4, Appended DEF Put
  <2> QED BY <2>1, <2>2, <2>3, <2>4
<1>4. ASSUME NEW n \in T PROVE n + 1 \in T
  <2> SUFFICES ASSUME n + 1 <= Len(comps) PROVE Good(out[n + 1])
    OBVIOUS
  <2>1. n + 1 \in 1..Len(comps) /\ (n + 1) - 1 = n /\ comps[n + 1] \in Parts
    OBVIOUS
  <2>2. Good(out[n])
    BY <2>1
  <2> HIDE DEF Good
  <2> QED BY <1>1, <1>3, <2>1, <2>2
<1>5. T = Nat
  <2>1. T \in SUBSET Nat
    OBVIOUS
  <2> HIDE DEF T
  <2> QED BY <1>2, <1>4, <2>1, EveryNumber
<1>6. ASSUME NEW n \in 0..Len(comps) PROVE Good(out[n])
  <2> HIDE DEF Good
  <2> QED BY <1>5
<1> QED BY <1>6 DEF out

LEMMA CleanSame ==
  ASSUME NEW abs \in BOOLEAN, NEW comps \in Seq(Parts), \A i \in DOMAIN comps : comps[i] # ".."
  PROVE  Cleaned(abs, comps)[Len(comps)] = comps
<1> DEFINE out == Cleaned(abs, comps)
           T == {n \in Nat : n <= Len(comps) => out[n] = SubSeq(comps, 1, n)}
<1>1. out[0] = <<>> /\ \A n \in 1..Len(comps) : out[n] = Put(abs, out[n - 1], comps[n])
  BY CleanedSteps
<1> HIDE DEF out
<1>2. 0 \in T
  <2>1. SubSeq(comps, 1, 0) = <<>>
    BY SubSeqEmpty
  <2> QED BY <1>1, <2>1
<1>3. ASSUME NEW n \in T PROVE n + 1 \in T
  <2> SUFFICES ASSUME n + 1 <= Len(comps) PROVE out[n + 1] = SubSeq(comps, 1, n + 1)
    OBVIOUS
  <2>1. n + 1 \in 1..Len(comps) /\ (n + 1) - 1 = n /\ comps[n + 1] # ".."
    OBVIOUS
  <2>2. out[n + 1] = Append(out[n], comps[n + 1])
    BY <1>1, <2>1 DEF Put
  <2>3. out[n] = SubSeq(comps, 1, n)
    BY <2>1
  <2>4. SubSeq(comps, 1, n + 1) = Append(SubSeq(comps, 1, n), comps[n + 1])
    BY OneMore
  <2> QED BY <2>2, <2>3, <2>4
<1>4. T = Nat
  <2>1. T \in SUBSET Nat
    OBVIOUS
  <2> HIDE DEF T
  <2> QED BY <1>2, <1>3, <2>1, EveryNumber
<1>5. out[Len(comps)] = SubSeq(comps, 1, Len(comps))
  <2>1. Len(comps) \in T /\ Len(comps) <= Len(comps)
    BY <1>4
  <2> QED BY <2>1
<1> QED BY <1>5, SubSeqFull DEF out

(* Where no link is on the way, a path is its own place. *)
LEMMA NoLinks ==
  ASSUME LinkType, NEW s \in Seq(Names), Walk(<<>>, s) \in Dirs, ~ ThroughLink(<<>>, s, Len(s))
  PROVE  Walk(<<>>, s) = s /\ s \in Dirs
<1> DEFINE at == Trail(link, <<>>, s)
           T == {n \in Nat : n <= Len(s) => at[n] = SubSeq(s, 1, n)}
<1>0. s \in Seq(Parts) /\ <<>> \in Dirs
  BY Ground
<1>1. at[0] = <<>> /\ \A n \in 1..Len(s) : at[n] = Step(link, at[n - 1], s[n])
  BY TrailSteps
<1>2. \A n \in 0..Len(s) : at[n] \in Dirs
  <2>1. at[Len(s)] # Nowhere /\ at[Len(s)] \in Dirs
    BY Ground DEF Walk
  <2>2. Len(s) \in 0..Len(s)
    OBVIOUS
  <2>3. \A m \in 0..(Len(s) - 1) : at[m] \in Dirs
    BY <1>0, <2>1, <2>2, WalkReal
  <2>4. \A n \in 0..Len(s) : n = Len(s) \/ n \in 0..(Len(s) - 1)
    OBVIOUS
  <2> QED BY <2>1, <2>3, <2>4
<1>3. \A n \in 1..Len(s) : ~ IsLink(Append(at[n - 1], s[n]))
  <2>1. \A n \in 1..Len(s) : n - 1 \in 0..Len(s)
    OBVIOUS
  <2> QED BY <1>2, <2>1 DEF ThroughLink
<1>4. Walk(<<>>, s) = at[Len(s)]
  BY DEF Walk
<1> HIDE DEF at
<1>5. 0 \in T
  <2>1. SubSeq(s, 1, 0) = <<>>
    BY SubSeqEmpty
  <2> QED BY <1>1, <2>1
<1>6. ASSUME NEW n \in T PROVE n + 1 \in T
  <2> SUFFICES ASSUME n + 1 <= Len(s) PROVE at[n + 1] = SubSeq(s, 1, n + 1)
    OBVIOUS
  <2>1. n + 1 \in 1..Len(s) /\ (n + 1) - 1 = n /\ n \in 0..Len(s) /\ s[n + 1] \in Names
    OBVIOUS
  <2>2. s[n + 1] # ".." /\ at[n] \in Dirs /\ ~ IsLink(Append(at[n], s[n + 1]))
    BY <1>2, <1>3, <2>1, Ground
  <2>3. at[n + 1] = Append(at[n], s[n + 1])
    BY <1>1, <2>1, <2>2 DEF Step, IsLink
  <2>4. at[n] = SubSeq(s, 1, n)
    BY <2>1
  <2>5. SubSeq(s, 1, n + 1) = Append(SubSeq(s, 1, n), s[n + 1])
    BY OneMore
  <2> QED BY <2>3, <2>4, <2>5
<1>7. T = Nat
  <2>1. T \in SUBSET Nat
    OBVIOUS
  <2> HIDE DEF T
  <2> QED BY <1>5, <1>6, <2>1, EveryNumber
<1>8. at[Len(s)] = SubSeq(s, 1, Len(s))
  <2>1. Len(s) \in T /\ Len(s) <= Len(s)
    BY <1>7
  <2> QED BY <2>1
<1> QED BY <1>4, <1>8, SubSeqFull

(* If no ".." follows a link, a path and its clean form lead to one place. *)
LEMMA CleanWalk ==
  ASSUME LinkType, NEW comps \in Seq(Parts), Walk(<<>>, comps) # Nowhere,
         \A i \in DOMAIN comps : comps[i] = ".." => ~ ThroughLink(<<>>, comps, i - 1)
  PROVE  \A n \in 0..Len(comps) : Walk(<<>>, Cleaned(TRUE, comps)[n]) = Trail(link, <<>>, comps)[n]
<1> DEFINE out == Cleaned(TRUE, comps)
           at == Trail(link, <<>>, comps)
           Good(n) == /\ Walk(<<>>, out[n]) = at[n]
                      /\ ThroughLink(<<>>, out[n], Len(out[n])) => ThroughLink(<<>>, comps, n)
           T == {n \in Nat : n <= Len(comps) => Good(n)}
<1>0. <<>> \in Dirs
  BY Ground
<1>1. out[0] = <<>> /\ \A n \in 1..Len(comps) : out[n] = Put(TRUE, out[n - 1], comps[n])
  <2>1. Len(comps) \in Nat
    OBVIOUS
  <2> QED BY ONLY <2>1, CleanedSteps, Zenon
<1>2. at[0] = <<>> /\ \A n \in 1..Len(comps) : at[n] = Step(link, at[n - 1], comps[n])
  BY TrailSteps
<1>3. \A n \in 0..Len(comps) : out[n] \in Seq(Names)
  BY CleanedType
<1>4. \A n \in 0..(Len(comps) - 1) : at[n] \in Dirs
  <2>1. at[Len(comps)] # Nowhere /\ Len(comps) \in 0..Len(comps)
    BY DEF Walk
  <2> QED BY <1>0, <2>1, WalkReal
<1>5. \A n, m \in 0..Len(comps) : n <= m /\ ThroughLink(<<>>, comps, n) => ThroughLink(<<>>, comps, m)
  BY DEF ThroughLink
<1>6. \A i \in 1..Len(comps) : at[i - 1] \in Dirs /\ IsLink(Append(at[i - 1], comps[i])) =>
                                 ThroughLink(<<>>, comps, i)
  <2>1. \A i \in 1..Len(comps) : i \in 1..i
    OBVIOUS
  <2> QED BY <2>1 DEF ThroughLink
<1> HIDE DEF out, at
<1>7. 0 \in T
  <2>1. Good(0)
    BY <1>1, <1>2, WalkNone
  <2> HIDE DEF Good
  <2> QED BY <2>1
<1>8. ASSUME NEW n \in Nat, n + 1 <= Len(comps), Good(n) PROVE Good(n + 1)
  <2> DEFINE s == out[n]
             c == comps[n + 1]
  <2>1. n + 1 \in 1..Len(comps) /\ (n + 1) - 1 = n /\ n \in 0..(Len(comps) - 1) /\ n \in 0..Len(comps)
        /\ n + 1 \in 0..Len(comps)
    BY <1>8
  <2>2. s \in Seq(Names) /\ s \in Seq(Parts) /\ c \in Parts /\ at[n] \in Dirs
    BY <1>3, <1>4, <2>1, Ground
  <2>3. /\ out[n + 1] = Put(TRUE, s, c) /\ at[n + 1] = Step(link, at[n], c)
        /\ Walk(<<>>, s) = at[n] /\ (ThroughLink(<<>>, s, Len(s)) => ThroughLink(<<>>, comps, n))
    BY <1>1, <1>2, <1>8, <2>1
  <2>4. c = ".." => ~ ThroughLink(<<>>, comps, n)
    BY <2>1
  <2>5. ThroughLink(<<>>, comps, n) => ThroughLink(<<>>, comps, n + 1)
    BY <1>5, <2>1
  <2>6. IsLink(Append(at[n], c)) => ThroughLink(<<>>, comps, n + 1)
    BY <1>6, <2>1, <2>2
  <2> HIDE DEF s, c
  <2>7. CASE c # ".."
    <3>1. out[n + 1] = Append(s, c)
      BY <2>3, <2>7 DEF Put
    <3>2. /\ Walk(<<>>, Append(s, c)) = Step(link, Walk(<<>>, s), c)
          /\ ThroughLink(<<>>, Append(s, c), Len(Append(s, c))) <=>
               \/ ThroughLink(<<>>, s, Len(s))
               \/ Walk(<<>>, s) \in Dirs /\ IsLink(Append(Walk(<<>>, s), c))
      BY <2>2, WalkAppend
    <3> QED BY <2>3, <2>5, <2>6, <3>1, <3>2
  <2>8. CASE c = ".."
    <3>1. Walk(<<>>, s) \in Dirs /\ ~ ThroughLink(<<>>, s, Len(s))
      BY <2>2, <2>3, <2>4, <2>8
    <3>2. Walk(<<>>, s) = s /\ s \in Dirs
      BY <2>2, <3>1, NoLinks
    <3>3. CASE s = <<>>
      <4>1. out[n + 1] = s /\ at[n + 1] = s
        BY <2>3, <2>8, <3>2, <3>3 DEF Put, Step
      <4> QED BY <2>3, <2>5, <3>2, <4>1
    <3>4. CASE s # <<>>
      <4>1. Last(s) \in Names /\ Front(s) \in Seq(Names) /\ Front(s) \in Dirs
        BY <2>2, <3>2, <3>4, Fronted, Ground
      <4>2. Last(s) # ".."
        BY <4>1, Ground
      <4>3. out[n + 1] = Front(s) /\ at[n + 1] = Front(s)
        BY <2>3, <2>8, <3>2, <3>4, <4>2 DEF Put, Step
      <4>4. Walk(<<>>, Front(s)) = Front(s)
        BY <2>2, <3>4, <4>1, RealWalk
      <4>5. ThroughLink(<<>>, Front(s), Len(Front(s))) => ThroughLink(<<>>, s, Len(s))
        BY <2>2, <3>4, WalkLast
      <4> QED BY <2>3, <2>5, <4>3, <4>4, <4>5
    <3> QED BY <3>3, <3>4
  <2> QED BY <2>7, <2>8
<1>9. ASSUME NEW n \in T PROVE n + 1 \in T
  <2> SUFFICES ASSUME n + 1 <= Len(comps) PROVE Good(n + 1)
    OBVIOUS
  <2>1. n \in Nat /\ n <= Len(comps)
    OBVIOUS
  <2>2. Good(n)
    BY <2>1
  <2> HIDE DEF Good
  <2> QED BY <1>8, <2>1, <2>2
<1>10. T = Nat
  <2>1. T \in SUBSET Nat
    OBVIOUS
  <2> HIDE DEF T
  <2> QED BY <1>7, <1>9, <2>1, EveryNumber
<1>11. ASSUME NEW n \in 0..Len(comps) PROVE Good(n)
  <2> HIDE DEF Good
  <2> QED BY <1>10
<1> QED BY <1>11 DEF out, at

-----------------------------------------------------------------------------
(* The forms of a path.  A clean one has no ".." when it is absolute. *)
Lexical(path) == path \in Paths /\ (path.abs => path.comps \in Seq(Names))

FileType == files \subseteq Seq(Names) /\ files \cap Dirs = {} /\ \A f \in files : ~ IsLink(f)

LEMMA PathFacts ==
  ASSUME NEW path \in Paths, NEW cwd \in Dirs
  PROVE  /\ path.abs \in BOOLEAN /\ path.comps \in Seq(Parts) /\ Len(path.comps) \in Nat
         /\ path = [abs |-> path.abs, comps |-> path.comps]
         /\ Start(path, cwd) \in Dirs
BY Ground DEF Paths, Parts, Start

(* The last step of the kernel's walk, for a path that leads to nothing. *)
LEMMA LastStep ==
  ASSUME LinkType, NEW c \in Paths, ~ Exists(c), NEW w, w = Walk(Start(c, Cwd), Front(c.comps)),
         NEW l, l = Last(c.comps)
  PROVE  /\ c.comps # <<>> /\ Len(c.comps) \in Nat \ {0} /\ l \in Parts
         /\ Front(c.comps) \in Seq(Parts) /\ Len(Front(c.comps)) = Len(c.comps) - 1
         /\ At(c) = Step(link, w, l)
         /\ At(c) # Nowhere => w \in Dirs
         /\ w \in Dirs => l # ".." /\ At(c) = IF IsLink(Append(w, l)) THEN link[Append(w, l)] ELSE Append(w, l)
         /\ Dangles(c) <=> IsLink(Append(w, l))
         /\ ThroughLink(Start(c, Cwd), c.comps, Len(c.comps)) <=>
              \/ ThroughLink(Start(c, Cwd), Front(c.comps), Len(Front(c.comps)))
              \/ w \in Dirs /\ IsLink(Append(w, l))
<1> DEFINE from == Start(c, Cwd)
<1>1. c.comps \in Seq(Parts) /\ from \in Dirs
  BY PathFacts, Ground
<1>2. c.comps # <<>>
  BY <1>1, WalkNone DEF Exists, At
<1>3. /\ Len(c.comps) \in Nat \ {0} /\ l \in Parts /\ Front(c.comps) \in Seq(Parts)
      /\ Len(Front(c.comps)) = Len(c.comps) - 1
  BY <1>1, <1>2, Fronted
<1>4. /\ At(c) = Step(link, w, l)
      /\ ThroughLink(from, c.comps, Len(c.comps)) <=>
           \/ ThroughLink(from, Front(c.comps), Len(Front(c.comps)))
           \/ w \in Dirs /\ IsLink(Append(w, l))
  BY <1>1, <1>2, WalkLast DEF At
<1>5. At(c) # Nowhere => w \in Dirs
  BY <1>4 DEF Step
<1>6. ASSUME w \in Dirs
      PROVE  l # ".." /\ At(c) = IF IsLink(Append(w, l)) THEN link[Append(w, l)] ELSE Append(w, l)
  <2>1. l = ".." => At(c) \in Dirs
    BY <1>3, <1>4, <1>6, StepReal
  <2>2. l # ".."
    BY <2>1 DEF Exists
  <2> QED BY <1>4, <1>6, <2>2 DEF Step, IsLink
<1>7. Dangles(c) <=> IsLink(Append(w, l))
  BY <1>2 DEF Dangles
<1> QED BY <1>2, <1>3, <1>4, <1>5, <1>6, <1>7

LEMMA ParentIs ==
  ASSUME NEW c \in Paths, Len(c.comps) > 1
  PROVE  Parent(c).abs = c.abs /\ Parent(c).comps = Front(c.comps)
<1>1. (c.abs /\ Len(c.comps) > 1) = c.abs
  BY DEF Paths
<1>2. Parent(c).abs = (c.abs /\ Len(c.comps) > 1) /\ Parent(c).comps = Front(c.comps)
  BY Zenon DEF Parent
<1> QED BY <1>1, <1>2, Zenon

(* A path that leads somewhere has the place among its forms. *)
LEMMA RealForm ==
  ASSUME LinkType, NEW c, Lexical(c), Anchored(c), ~ Dangles(c), At(c) # Nowhere
  PROVE  [abs |-> TRUE, comps |-> At(c)] \in {c} \cup Resolved(c)
<1>1. c \in Paths /\ c.abs \in BOOLEAN /\ c = [abs |-> c.abs, comps |-> c.comps]
  BY PathFacts, Ground DEF Lexical
<1>2. CASE Exists(c)
  BY <1>2 DEF Resolved, EvalSymlinks, Anchored
<1>3. CASE ~ Exists(c)
  <2> DEFINE f == Front(c.comps)
             l == Last(c.comps)
             w == Walk(Start(c, Cwd), f)
  <2>1. /\ Len(c.comps) \in Nat \ {0} /\ l \in Parts /\ f \in Seq(Parts) /\ Len(f) = Len(c.comps) - 1
        /\ w \in Dirs /\ c.comps # <<>> /\ c.comps \in Seq(Parts)
        /\ ~ IsLink(Append(w, l)) /\ At(c) = Append(w, l)
        /\ ThroughLink(Start(c, Cwd), c.comps, Len(c.comps)) => ThroughLink(Start(c, Cwd), f, Len(f))
    BY <1>1, <1>3, LastStep, PathFacts, Ground
  <2>2. c.comps = Append(f, l)
    BY <2>1, Fronted
  <2>5. Len(c.comps) \in Nat \ {0}
    BY <2>1
  <2>3. CASE Len(c.comps) = 1
    <3>1. f = <<>>
      BY <2>1, <2>3, EmptySeq
    <3>2. ~ ThroughLink(Start(c, Cwd), f, Len(f)) /\ w = Start(c, Cwd)
      BY <2>1, <2>3, <3>1, WalkNone
    <3>3. c.abs
      BY <2>1, <3>2 DEF Anchored
    <3>4. c = [abs |-> TRUE, comps |-> At(c)]
      BY <1>1, <2>1, <2>2, <3>1, <3>2, <3>3 DEF Start
    <3> QED BY <3>4
  <2>4. CASE Len(c.comps) # 1
    <3> DEFINE p == Parent(c)
    <3>0. Len(c.comps) > 1
      <4> DEFINE len == Len(c.comps)
      <4>1. len \in Nat \ {0} /\ len # 1
        BY <2>4, <2>5
      <4> HIDE DEF len
      <4>2. len > 1
        BY ONLY <4>1
      <4> QED BY <4>2 DEF len
    <3>1. p.abs = c.abs /\ p.comps = f
      BY <1>1, <3>0, ParentIs
    <3>2. At(p) = w /\ Start(p, Cwd) = Start(c, Cwd)
      BY <3>1 DEF At, Start
    <3> HIDE DEF p, f, w, l
    <3>3. Exists(p)
      BY <2>1, <3>2 DEF Exists
    <3>4. EvalSymlinks(p) = [abs |-> TRUE, comps |-> w]
      BY <2>1, <3>1, <3>2 DEF EvalSymlinks, Anchored
    <3>5. Join(EvalSymlinks(p), l) = [abs |-> TRUE, comps |-> Append(w, l)]
      BY <3>4 DEF Join
    <3>6. Join(EvalSymlinks(p), l) \in Resolved(c)
      BY <1>3, <3>0, <3>3 DEF Resolved, p, l
    <3> QED BY <2>1, <3>5, <3>6
  <2> QED BY <2>3, <2>4
<1> QED BY <1>2, <1>3

(* What else can be among them. *)
LEMMA FormsOnly ==
  ASSUME LinkType, FileType, NEW c, Lexical(c), NEW g \in Resolved(c)
  PROVE  \/ /\ g.abs /\ g.comps = At(c) /\ At(c) # Nowhere /\ Anchored(c) /\ ~ Dangles(c)
         \/ /\ g.abs /\ ~ Exists(c) /\ Dangles(c) /\ IsLink(g.comps) /\ At(c) = link[g.comps]
            /\ g.comps = Append(Walk(Start(c, Cwd), Front(c.comps)), Last(c.comps))
         \/ /\ g.abs /\ At(c) = Nowhere
            /\ \E f \in files : Real(f) /\ g.comps = Append(f, Last(c.comps))
         \/ ~ g.abs /\ (c.abs => ~ Exists(c) /\ Len(c.comps) = 1)
<1>1. c \in Paths /\ c.abs \in BOOLEAN /\ c.comps \in Seq(Parts) /\ Len(c.comps) \in Nat /\ Cwd \in Dirs
  BY PathFacts, Ground DEF Lexical
<1>2. CASE Exists(c)
  <2>1. g = EvalSymlinks(c) /\ At(c) # Nowhere /\ ~ Dangles(c)
    BY <1>2, Ground DEF Resolved, Exists, Dangles, FileType
  <2>2. CASE Anchored(c)
    <3>1. g = [abs |-> TRUE, comps |-> At(c)]
      BY <2>1, <2>2 DEF EvalSymlinks, Anchored
    <3> QED BY <2>1, <2>2, <3>1
  <2>3. CASE ~ Anchored(c)
    BY <2>1, <2>3 DEF EvalSymlinks, Anchored
  <2> QED BY <2>2, <2>3
<1>3. CASE ~ Exists(c)
  <2> DEFINE f == Front(c.comps)
             l == Last(c.comps)
             w == Walk(Start(c, Cwd), f)
             p == Parent(c)
             len == Len(c.comps)
  <2>1. /\ len \in Nat \ {0} /\ l \in Parts /\ f \in Seq(Parts) /\ Len(f) = len - 1
        /\ At(c) = Step(link, w, l)
        /\ w \in Dirs => l # ".." /\ At(c) = IF IsLink(Append(w, l)) THEN link[Append(w, l)] ELSE Append(w, l)
        /\ Dangles(c) <=> IsLink(Append(w, l))
        /\ ThroughLink(Start(c, Cwd), f, Len(f)) => ThroughLink(Start(c, Cwd), c.comps, len)
    BY <1>1, <1>3, LastStep
  <2>2. g = Join(EvalSymlinks(p), l) /\ Exists(p)
    BY <1>3 DEF Resolved
  <2>3. g.abs = EvalSymlinks(p).abs /\ g.comps = Append(EvalSymlinks(p).comps, l)
    <3> HIDE DEF p, l
    <3>1. g = [abs |-> EvalSymlinks(p).abs, comps |-> Append(EvalSymlinks(p).comps, l)]
      BY <2>2 DEF Join
    <3> QED BY <3>1
  <2>4. Start(c, Cwd) \in Dirs
    BY <1>1, PathFacts
  <2>5. CASE len = 1
    <3>1. f = <<>>
      BY <2>1, <2>5, EmptySeq
    <3>2. p = [abs |-> FALSE, comps |-> <<>>]
      <4>1. ~ (Len(c.comps) > 1)
        BY <2>5
      <4>2. (c.abs /\ Len(c.comps) > 1) = FALSE
        BY <4>1
      <4>3. p = [abs |-> (c.abs /\ Len(c.comps) > 1), comps |-> f]
        BY Zenon DEF Parent
      <4> QED BY <3>1, <4>2, <4>3, Zenon
    <3>3. EvalSymlinks(p) = p
      <4>1. ~ ThroughLink(Cwd, <<>>, 0) /\ Len(<<>>) = 0
        BY WalkNone
      <4> QED BY <3>2, <4>1 DEF EvalSymlinks, Start
    <3>4. ~ g.abs
      BY <2>3, <3>2, <3>3
    <3> QED BY <1>3, <2>5, <3>4
  <2>6. CASE len # 1
    <3>0. len > 1
      <4>1. len \in Nat \ {0}
        BY <2>1
      <4> HIDE DEF len
      <4> QED BY <2>6, <4>1
    <3>1. p.abs = c.abs /\ p.comps = f
      BY <1>1, <3>0, ParentIs
    <3>2. At(p) = w /\ Start(p, Cwd) = Start(c, Cwd)
      BY <3>1 DEF At, Start
    <3> HIDE DEF p, f, w, l, len
    <3>3. w \in Dirs \cup files
      BY <2>2, <3>2 DEF Exists
    <3>4. CASE ~ Anchored(p)
      <4>1. EvalSymlinks(p) = p /\ ~ p.abs
        BY <3>4 DEF EvalSymlinks, Anchored
      <4> QED BY <2>3, <3>1, <4>1
    <3>5. CASE Anchored(p)
      <4>1. EvalSymlinks(p) = [abs |-> TRUE, comps |-> w]
        BY <3>2, <3>5 DEF EvalSymlinks, Anchored
      <4>2. g.abs /\ g.comps = Append(w, l)
        BY <2>3, <4>1
      <4>3. Anchored(c)
        BY <2>1, <3>1, <3>2, <3>5 DEF Anchored, len
      <4>4. CASE w \in Dirs /\ IsLink(Append(w, l))
        BY <1>3, <2>1, <4>2, <4>4 DEF w, f, l
      <4>5. CASE w \in Dirs /\ ~ IsLink(Append(w, l))
        <5>1. l \in Names /\ w \in Seq(Names)
          BY <2>1, <4>5, Ground DEF Parts
        <5>2. At(c) = Append(w, l) /\ Append(w, l) \in Seq(Names)
          BY <2>1, <4>5, <5>1, Appended
        <5>3. At(c) # Nowhere /\ ~ Dangles(c)
          BY <2>1, <4>5, <5>2, Ground
        <5> QED BY <4>2, <4>3, <5>2, <5>3
      <4>6. CASE w \notin Dirs
        <5>1. w \in files /\ w # Nowhere
          BY <3>3, <4>6, Ground DEF FileType
        <5>2. At(c) = Nowhere
          BY <2>1, <4>6 DEF Step
        <5>3. Real(w)
          <6>1. Len(f) \in 0..Len(f) /\ w = Trail(link, Start(c, Cwd), f)[Len(f)]
            BY <2>1 DEF w, Walk
          <6> QED BY <2>1, <2>4, <5>1, <6>1, WalkReal
        <5> QED BY <4>2, <5>1, <5>2, <5>3 DEF l
      <4> QED BY <4>4, <4>5, <4>6
    <3> QED BY <3>4, <3>5
  <2> QED BY <2>5, <2>6
<1> QED BY <1>2, <1>3

-----------------------------------------------------------------------------
(* A cleaned path, and the forms that are compared. *)
LEMMA CleanIs ==
  ASSUME NEW path \in Paths
  PROVE  /\ Clean(path).abs = path.abs
         /\ Clean(path).comps = Cleaned(path.abs, path.comps)[Len(path.comps)]
         /\ Lexical(Clean(path))
         /\ path.comps = <<>> => Clean(path).comps = <<>>
         /\ (\A i \in DOMAIN path.comps : path.comps[i] # "..") => Clean(path) = path
<1> DEFINE out == Cleaned(path.abs, path.comps)[Len(path.comps)]
<1>1. /\ path.abs \in BOOLEAN /\ path.comps \in Seq(Parts) /\ Len(path.comps) \in Nat
      /\ path = [abs |-> path.abs, comps |-> path.comps]
  BY PathFacts, Ground
<1>2. out \in Seq(Parts) /\ (path.abs => out \in Seq(Names))
  <2>1. Len(path.comps) \in 0..Len(path.comps)
    BY <1>1
  <2> QED BY <1>1, <2>1, CleanedType
<1>3. path.comps = <<>> => out = <<>>
  <2>1. Cleaned(path.abs, path.comps)[0] = <<>>
    BY <1>1, CleanedSteps
  <2>2. path.comps = <<>> => Len(path.comps) = 0
    OBVIOUS
  <2> QED BY <2>1, <2>2
<1>4. (\A i \in DOMAIN path.comps : path.comps[i] # "..") => out = path.comps
  BY <1>1, CleanSame
<1>5. Clean(path) = [path EXCEPT !.comps = out]
  BY DEF Clean
<1> HIDE DEF out
<1>6. Clean(path) = [abs |-> path.abs, comps |-> out]
  BY <1>5 DEF Paths
<1>7. Lexical(Clean(path))
  BY <1>1, <1>2, <1>6 DEF Lexical, Paths, Parts
<1>8. (\A i \in DOMAIN path.comps : path.comps[i] # "..") => Clean(path) = path
  BY <1>1, <1>4, <1>6
<1> QED BY <1>3, <1>6, <1>7, <1>8 DEF out

Forms(c) == {f \in {c} \cup Resolved(c) : f.abs => f.comps # <<>>}

LEMMA FormsAre ==
  ASSUME NEW path \in Paths
  PROVE  /\ path.comps # <<>> => CanonicalForms(path) = Forms(Clean(path))
         /\ CanonicalForms(path) # {} => path.comps # <<>>
         /\ Clean(path).comps # <<>> => path.comps # <<>>
BY CleanIs DEF CanonicalForms, Forms

LEMMA Expanded ==
  ASSUME NEW q \in Protected
  PROVE  ExpandHome(q) \in Paths /\ Clean(ExpandHome(q)) \in Named
<1>1. q \in Paths
  BY RulesAssumption
<1>2. CASE ~ q.abs /\ q.comps # <<>> /\ q.comps[1] \in DOMAIN Tilde
  <2> DEFINE t == Tail(q.comps)
             home == Tilde[q.comps[1]]
  <2>1. t \in Seq(Parts) /\ home \in Seq(Parts)
    BY <1>1, <1>2, HeadTailProperties, Ground, RulesAssumption DEF Paths, Places, Parts
  <2> HIDE DEF t, home
  <2>2. home \o t \in Seq(Parts)
    BY <2>1, ConcatProperties
  <2> DEFINE h == home \o t
  <2>3. ExpandHome(q) = [abs |-> TRUE, comps |-> h]
    BY <1>2 DEF ExpandHome, t, home
  <2> HIDE DEF h
  <2>4. ExpandHome(q) \in Paths
    BY <2>2, <2>3 DEF Paths, Parts, h
  <2> QED BY <2>4 DEF Named
<1>3. CASE ~ (~ q.abs /\ q.comps # <<>> /\ q.comps[1] \in DOMAIN Tilde)
  <2>1. ExpandHome(q) = q
    BY <1>3 DEF ExpandHome
  <2> QED BY <1>1, <2>1 DEF Named
<1> QED BY <1>2, <1>3

(* A path is judged by its clean form and the patterns'. *)
LEMMA FlaggedWhen ==
  ASSUME NEW path \in Paths, path.comps # <<>>
  PROVE  EvalFile(path) <=>
           \E q \in Protected :
             /\ ExpandHome(q).comps # <<>>
             /\ \E f \in Forms(Clean(path)), g \in Forms(Clean(ExpandHome(q))) : Under(f, g)
<1>1. CanonicalForms(path) = Forms(Clean(path))
  BY FormsAre
<1>2. \A q \in Protected : /\ CanonicalForms(ExpandHome(q)) # {} => ExpandHome(q).comps # <<>>
                           /\ ExpandHome(q).comps # <<>> =>
                                CanonicalForms(ExpandHome(q)) = Forms(Clean(ExpandHome(q)))
  BY Expanded, FormsAre
<1>3. ASSUME EvalFile(path)
      PROVE  \E q \in Protected :
               /\ ExpandHome(q).comps # <<>>
               /\ \E f \in Forms(Clean(path)), g \in Forms(Clean(ExpandHome(q))) : Under(f, g)
  <2>1. PICK q \in Protected : PathMatches(q, path)
    BY <1>3 DEF EvalFile
  <2>2. PICK f \in CanonicalForms(path), g \in CanonicalForms(ExpandHome(q)) : Under(f, g)
    BY <2>1 DEF PathMatches
  <2> QED BY <1>1, <1>2, <2>2
<1>4. ASSUME NEW q \in Protected, ExpandHome(q).comps # <<>>,
             NEW f \in Forms(Clean(path)), NEW g \in Forms(Clean(ExpandHome(q))), Under(f, g)
      PROVE  EvalFile(path)
  BY <1>1, <1>2, <1>4 DEF EvalFile, PathMatches
<1> QED BY <1>3, <1>4

-----------------------------------------------------------------------------
(* What is pending is where the kernel's walk led, unless a link has changed;
   no file is a directory or a link. *)
EventType == [kind : {"file", "exec"}, path : Paths, place : Seq(Names) \cup {Nowhere}, calm : BOOLEAN]

Placed(e) == e.calm /\ e.path.abs /\ e.place # Nowhere => e.place = Walk(<<>>, e.path.comps)

RulesInv ==
  /\ LinkType /\ FileType
  /\ pending \subseteq EventType
  /\ \A e \in pending : e.place \notin Dirs /\ Placed(e)

(* A write that Faithful speaks of, by its clean path. *)
LEMMA CleanEvent ==
  ASSUME RulesInv, NEW e \in pending, Faithful(e)
  PROVE  LET c == Clean(e.path)
         IN  /\ e.path \in Paths /\ e.path.comps # <<>> /\ c.abs /\ Lexical(c) /\ c.comps \in Seq(Names)
             /\ At(c) = e.place /\ Walk(<<>>, c.comps) = e.place /\ Real(e.place)
             /\ e.place # Nowhere /\ e.place # <<>> /\ e.place \notin Dirs
             /\ Anchored(c) /\ ~ Dangles(c)
<1> DEFINE c == Clean(e.path)
           comps == e.path.comps
           out == Cleaned(TRUE, comps)
           at == Trail(link, <<>>, comps)
           len == Len(comps)
<1>1. /\ e.path \in Paths /\ e.path.abs = TRUE /\ comps \in Seq(Parts) /\ len \in Nat
      /\ e.place # Nowhere /\ e.place \notin Dirs /\ e.place = Walk(<<>>, comps)
      /\ DotsAreLexical(e.path) /\ ~ Dangles(e.path) /\ <<>> \in Dirs
  BY Ground DEF RulesInv, EventType, Placed, Faithful, Paths, Parts
<1>2. c.abs = TRUE /\ c.comps = out[len] /\ Lexical(c)
  BY <1>1, CleanIs
<1>3. c.comps \in Seq(Names) /\ c.comps \in Seq(Parts)
  BY <1>2, Ground DEF Lexical
<1>4. \A i \in DOMAIN comps : comps[i] = ".." => ~ ThroughLink(<<>>, comps, i - 1)
  BY <1>1 DEF DotsAreLexical, Start
<1>5. \A n \in 0..len : Walk(<<>>, out[n]) = at[n]
  BY <1>1, <1>4, CleanWalk DEF RulesInv
<1>6. Walk(<<>>, c.comps) = e.place
  <2>1. len \in 0..len /\ e.place = at[len]
    BY <1>1 DEF Walk
  <2> QED BY <1>2, <1>5, <2>1
<1>7. At(c) = e.place /\ Anchored(c) /\ At(e.path) = e.place
  BY <1>1, <1>2, <1>6 DEF At, Start, Anchored
<1>8. Real(e.place) /\ e.place # <<>>
  <2>1. len \in 0..len /\ e.place = at[len]
    BY <1>1 DEF Walk
  <2> QED BY <1>1, <2>1, WalkReal DEF RulesInv
<1>9. comps # <<>>
  BY <1>1, WalkNone
<1>10. ~ Dangles(c)
  <2> SUFFICES ASSUME Dangles(c) PROVE FALSE
    OBVIOUS
  <2> DEFINE w == Walk(<<>>, Front(comps))
             l == Last(comps)
  <2>1. ~ Exists(c) /\ ~ Exists(e.path)
    BY <1>7 DEF Dangles, Exists
  <2>2. Start(e.path, Cwd) = <<>> /\ Start(c, Cwd) = <<>>
    BY <1>1, <1>2 DEF Start
  <2>3. /\ len \in Nat \ {0} /\ l \in Parts /\ Front(comps) \in Seq(Parts)
        /\ w \in Dirs /\ l # ".." /\ ~ IsLink(Append(w, l))
    BY <1>1, <1>7, <2>1, <2>2, LastStep DEF RulesInv
  <2>4. Trail(link, <<>>, comps)[len - 1] = w /\ l = comps[len]
    BY <1>1, <1>9, WalkLast DEF Last
  <2>5. len - 1 \in 0..len /\ len \in 1..len
    BY <2>3
  <2>6. out[len] = Put(TRUE, out[len - 1], comps[len])
    <3> HIDE DEF len, comps
    <3>1. Len(comps) \in Nat
      BY <1>1 DEF len
    <3>2. \A n \in 1..Len(comps) : out[n] = Put(TRUE, out[n - 1], comps[n])
      BY ONLY <3>1, CleanedSteps, Zenon
    <3> QED BY <2>5, <3>2 DEF len
  <2>7. c.comps = Append(out[len - 1], l)
    BY <1>2, <2>3, <2>4, <2>6 DEF Put
  <2>8. Walk(<<>>, out[len - 1]) = w
    BY <1>5, <2>4, <2>5
  <2>9. out[len - 1] \in Seq(Names) /\ l \in Names
    <3>1. out[len - 1] \in Seq(Names)
      BY <1>1, <2>5, CleanedType
    <3> QED BY <2>3, <3>1 DEF Parts
  <2>10. Front(c.comps) = out[len - 1] /\ Last(c.comps) = l
    <3> DEFINE o == out[len - 1]
    <3> HIDE DEF o, l
    <3>1. Front(Append(o, l)) = o /\ Last(Append(o, l)) = l
      BY <2>9, Appended DEF o
    <3> QED BY <2>7, <3>1 DEF o
  <2>11. IsLink(Append(Walk(Start(c, Cwd), Front(c.comps)), Last(c.comps)))
    BY DEF Dangles
  <2> QED BY <2>2, <2>3, <2>8, <2>10, <2>11
<1> QED BY <1>1, <1>2, <1>3, <1>6, <1>7, <1>8, <1>9, <1>10

LEMMA NamedIs ==
  ASSUME NEW p \in Named
  PROVE  /\ Lexical(p)
         /\ \E q \in Protected : /\ p = Clean(ExpandHome(q))
                                 /\ p.comps # <<>> => ExpandHome(q).comps # <<>>
<1>1. PICK q \in Protected : p = Clean(ExpandHome(q))
  BY DEF Named
<1> QED BY <1>1, Expanded, CleanIs, FormsAre

(* What is below a protected path is reported. *)
LEMMA GuardedFlagged ==
  ASSUME RulesInv, NEW e \in pending, Faithful(e), Guarded(e.place)
  PROVE  EvalFile(e.path)
<1> DEFINE c == Clean(e.path)
           f == [abs |-> TRUE, comps |-> e.place]
<1>1. /\ e.path \in Paths /\ e.path.comps # <<>> /\ Lexical(c) /\ At(c) = e.place
      /\ e.place # Nowhere /\ e.place # <<>> /\ Anchored(c) /\ ~ Dangles(c)
  BY CleanEvent
<1>2. PICK p \in Named : /\ Anchored(p) /\ ~ Dangles(p)
                         /\ At(p) \notin {Nowhere, <<>>} /\ IsPrefix(At(p), e.place)
  BY DEF Guarded
<1>3. Lexical(p) /\ \E q \in Protected : /\ p = Clean(ExpandHome(q))
                                         /\ p.comps # <<>> => ExpandHome(q).comps # <<>>
  BY NamedIs
<1> DEFINE g == [abs |-> TRUE, comps |-> At(p)]
<1>4. f \in {c} \cup Resolved(c)
  <2> HIDE DEF c
  <2> QED BY <1>1, RealForm DEF RulesInv
<1>5. f \in Forms(c)
  BY <1>1, <1>4 DEF Forms
<1>6. g \in {p} \cup Resolved(p)
  BY <1>2, <1>3, RealForm DEF RulesInv
<1>7. g \in Forms(p)
  BY <1>2, <1>6 DEF Forms
<1>8. p.comps # <<>>
  <2> SUFFICES ASSUME p.comps = <<>> PROVE FALSE
    OBVIOUS
  <2>1. ~ ThroughLink(Start(p, Cwd), p.comps, Len(p.comps))
    <3>1. Len(<<>>) = 0
      OBVIOUS
    <3> QED BY <3>1, WalkNone
  <2>2. p.abs /\ At(p) = <<>>
    BY <1>2, <2>1, WalkNone DEF Anchored, At, Start
  <2> QED BY <1>2, <2>2
<1>9. Under(f, g)
  BY <1>2 DEF Under
<1> HIDE DEF c, f, g
<1>10. PICK q \in Protected : p = Clean(ExpandHome(q)) /\ ExpandHome(q).comps # <<>>
  BY <1>3, <1>8
<1> QED BY <1>1, <1>5, <1>7, <1>9, <1>10, FlaggedWhen DEF c

(* So is what reads so. *)
LEMMA ReadsFlagged ==
  ASSUME NEW path \in Paths, Reads(path), \A i \in DOMAIN path.comps : path.comps[i] # ".."
  PROVE  EvalFile(path)
<1>1. PICK p \in Named : p.abs = path.abs /\ p.comps # <<>> /\ IsPrefix(p.comps, path.comps)
  BY DEF Reads
<1>2. Lexical(p) /\ \E q \in Protected : /\ p = Clean(ExpandHome(q))
                                         /\ p.comps # <<>> => ExpandHome(q).comps # <<>>
  BY NamedIs
<1>3. PICK q \in Protected : p = Clean(ExpandHome(q)) /\ ExpandHome(q).comps # <<>>
  BY <1>1, <1>2
<1>4. p.comps \in Seq(Parts) /\ path.comps \in Seq(Parts)
  BY <1>2 DEF Lexical, Paths, Parts
<1>5. path.comps # <<>>
  <2>1. Len(p.comps) <= Len(path.comps) /\ Len(p.comps) # 0
    BY <1>1, <1>4, EmptySeq DEF IsPrefix
  <2> QED BY <2>1
<1>6. Clean(path) = path
  BY CleanIs
<1>7. path \in Forms(Clean(path)) /\ p \in Forms(p)
  BY <1>1, <1>5, <1>6 DEF Forms
<1>8. Under(path, p)
  BY <1>1 DEF Under
<1> QED BY <1>3, <1>5, <1>7, <1>8, FlaggedWhen

-----------------------------------------------------------------------------
(* A form of a protected path that a place, or a path the kernel can walk,
   begins with: it is where the kernel finds the protected path. *)
LEMMA PlaceBegins ==
  ASSUME RulesInv, NEW t, Real(t), NEW p \in Named, NEW g \in Forms(p), g.abs, IsPrefix(g.comps, t)
  PROVE  Guarded(t)
<1>1. t \in Seq(Names) /\ ~ IsLink(t) /\ (t # <<>> => Front(t) \in Dirs)
  BY DEF Real
<1>2. Lexical(p)
  BY NamedIs
<1>3. p \in Paths /\ p.comps \in Seq(Parts)
  BY <1>2 DEF Lexical, Paths, Parts
<1>4. g.comps # <<>>
  BY DEF Forms
<1>5. CASE g = p
  <2>1. p.abs /\ p.comps \in Seq(Names)
    BY <1>2, <1>5 DEF Lexical
  <2>2. p.comps = t \/ p.comps \in Dirs
    BY <1>1, <1>5, <2>1, PrefixReal
  <2>3. Real(p.comps)
    BY <2>2, DirReal
  <2>4. Walk(<<>>, p.comps) = p.comps /\ Walk(<<>>, Front(p.comps)) = Front(p.comps)
    BY <1>4, <1>5, <2>3, RealWalk DEF Real
  <2>5. At(p) = p.comps /\ Anchored(p) /\ Start(p, Cwd) = <<>>
    BY <2>1, <2>4 DEF At, Start, Anchored
  <2>6. Append(Front(p.comps), Last(p.comps)) = p.comps
    BY <1>4, <1>5, <2>1, Fronted
  <2>7. ~ Dangles(p)
    BY <2>3, <2>4, <2>5, <2>6 DEF Dangles, Real
  <2>8. At(p) \notin {Nowhere, <<>>}
    BY <1>4, <1>5, <2>1, <2>5, Ground
  <2> QED BY <1>5, <2>5, <2>7, <2>8 DEF Guarded
<1>6. CASE g \in Resolved(p)
  <2>1. CASE /\ g.comps = At(p) /\ At(p) # Nowhere /\ Anchored(p) /\ ~ Dangles(p)
    BY <1>4, <2>1 DEF Guarded
  <2>2. CASE IsLink(g.comps)
    <3>1. g.comps \in Links /\ g.comps \in Seq(Names)
      BY <2>2, Ground DEF IsLink, LeadsOn
    <3>2. g.comps = t \/ g.comps \in Dirs
      BY <1>1, <3>1, PrefixReal
    <3> QED BY <1>1, <2>2, <3>1, <3>2, Ground
  <2>3. CASE At(p) = Nowhere /\ \E f \in files : Real(f) /\ g.comps = Append(f, Last(p.comps))
    <3>1. PICK f \in files : Real(f) /\ g.comps = Append(f, Last(p.comps))
      BY <2>3
    <3>2. p.comps # <<>>
      BY <1>3, <2>3, WalkNone, PathFacts, Ground DEF At
    <3> DEFINE x == Last(p.comps)
    <3>3. f \in Seq(Names) /\ f \in Seq(Parts) /\ x \in Parts /\ t \in Seq(Parts)
      BY <1>1, <1>3, <3>1, <3>2, Fronted, Ground DEF RulesInv, FileType
    <3> HIDE DEF x
    <3>5. IsPrefix(f, t) /\ f # t
      <4>1. IsPrefix(Append(f, x), t)
        BY <3>1 DEF x
      <4> QED BY <3>3, <4>1, ShorterPrefix
    <3>6. f \in Dirs
      BY <1>1, <3>3, <3>5, PrefixReal
    <3> QED BY <3>1, <3>6 DEF RulesInv, FileType
  <2> QED BY <1>2, <1>6, <2>1, <2>2, <2>3, FormsOnly DEF RulesInv
<1> QED BY <1>5, <1>6 DEF Forms

LEMMA PathBegins ==
  ASSUME RulesInv, NEW c \in Paths, c.abs, c.comps \in Seq(Names), At(c) # Nowhere, ~ Dangles(c),
         NEW p \in Named, NEW g \in Resolved(p), g.abs, g.comps # <<>>, IsPrefix(g.comps, c.comps)
  PROVE  Guarded(c.comps)
<1> DEFINE t == c.comps
           at == Trail(link, <<>>, t)
<1>0. <<>> \in Dirs /\ t \in Seq(Parts) /\ Len(t) \in Nat /\ Start(c, Cwd) = <<>> /\ At(c) = at[Len(t)]
  BY Ground DEF Start, At, Walk
<1>1. \A n \in 0..(Len(t) - 1) : at[n] \in Dirs
  <2>1. Len(t) \in 0..Len(t)
    BY <1>0
  <2> HIDE DEF t
  <2> QED BY <1>0, <2>1, WalkReal DEF RulesInv
<1>2. Lexical(p)
  BY NamedIs
<1>3. p \in Paths /\ p.comps \in Seq(Parts)
  BY <1>2 DEF Lexical, Paths, Parts
<1>4. CASE /\ g.comps = At(p) /\ At(p) # Nowhere /\ Anchored(p) /\ ~ Dangles(p)
  BY <1>4 DEF Guarded
<1>5. CASE ~ Exists(p) /\ IsLink(g.comps) /\ At(p) = link[g.comps]
  <2> DEFINE l == g.comps
  <2>1. l \in Links /\ l \in Seq(Names) /\ Front(l) \in Dirs /\ link[l] \notin Dirs \cup files
    BY <1>5, Ground DEF IsLink, LeadsOn, Exists
  <2>2. Len(l) \in 0..Len(t) /\ at[Len(l)] = link[l]
    BY <1>0, <1>5, <2>1, WalkThere
  <2>3. Len(l) = Len(t)
    BY <1>1, <2>1, <2>2, <1>0
  <2>4. l = t
    <3>1. SubSeq(l, 1, Len(l)) = l /\ SubSeq(t, 1, Len(t)) = t
      BY <1>0, <2>1, SubSeqFull
    <3> QED BY <2>3, <3>1 DEF IsPrefix
  <2>5. ~ Exists(c)
    BY <1>0, <2>1, <2>2, <2>3 DEF Exists
  <2>6. Walk(<<>>, Front(t)) = Front(t) /\ Append(Front(t), Last(t)) = t
    BY <2>1, <2>4, RealWalk, Fronted
  <2>7. IsLink(Append(Walk(Start(c, Cwd), Front(c.comps)), Last(c.comps)))
    BY <1>0, <1>5, <2>4, <2>6
  <2> QED BY <2>4, <2>5, <2>7 DEF Dangles
<1>6. CASE At(p) = Nowhere /\ \E f \in files : Real(f) /\ g.comps = Append(f, Last(p.comps))
  <2>1. PICK f \in files : Real(f) /\ g.comps = Append(f, Last(p.comps))
    BY <1>6
  <2>2. p.comps # <<>>
    BY <1>3, <1>6, WalkNone, PathFacts, Ground DEF At
  <2> DEFINE x == Last(p.comps)
  <2>3. f \in Seq(Names) /\ f \in Seq(Parts) /\ x \in Parts
    BY <1>3, <2>1, <2>2, Fronted, Ground DEF RulesInv, FileType
  <2> HIDE DEF x, t, at
  <2>5. IsPrefix(f, t) /\ Len(f) < Len(t)
    <3>1. IsPrefix(Append(f, x), t)
      BY <2>1 DEF x, t
    <3> QED BY <1>0, <2>3, <3>1, ShorterPrefix
  <2>6. at[Len(f)] = f
    BY <1>0, <2>1, <2>3, <2>5, WalkThere DEF Real, at
  <2>7. Len(f) \in 0..(Len(t) - 1)
    BY <1>0, <2>3, <2>5
  <2>8. f \in Dirs
    BY <1>1, <2>6, <2>7
  <2> QED BY <2>1, <2>8 DEF RulesInv, FileType
<1> QED BY <1>2, <1>4, <1>5, <1>6, FormsOnly DEF RulesInv

(* What is reported is below a protected path. *)
LEMMA FlaggedGuarded ==
  ASSUME RulesInv, NEW e \in pending, Faithful(e), EvalFile(e.path)
  PROVE  Guarded(e.place) \/ Reads(Clean(e.path)) \/ Guarded(Clean(e.path).comps) \/ GoneFromRoot(e)
<1> DEFINE c == Clean(e.path)
<1>1. /\ e.path \in Paths /\ e.path.comps # <<>> /\ c.abs /\ Lexical(c) /\ c.comps \in Seq(Names)
      /\ At(c) = e.place /\ Real(e.place) /\ e.place # Nowhere /\ ~ Dangles(c)
  BY CleanEvent
<1>2. PICK q \in Protected : \E f \in Forms(c), g \in Forms(Clean(ExpandHome(q))) : Under(f, g)
  BY <1>1, FlaggedWhen
<1> DEFINE p == Clean(ExpandHome(q))
<1>3. p \in Named
  BY Expanded
<1> HIDE DEF c, p
<1>4. PICK f \in Forms(c), g \in Forms(p) : Under(f, g)
  BY <1>2 DEF c, p
<1>5. f.abs = g.abs /\ IsPrefix(g.comps, f.comps)
  BY <1>4 DEF Under
<1>6. GoneFromRoot(e) \/ f = c \/ (f.abs /\ f.comps = e.place)
  <2> SUFFICES ASSUME f \in Resolved(c) PROVE GoneFromRoot(e) \/ (f.abs /\ f.comps = e.place)
    BY DEF Forms
  <2>1. CASE f.abs /\ f.comps = At(c)
    BY <1>1, <2>1
  <2>2. CASE ~ Exists(c) /\ Len(c.comps) = 1
    BY <1>1, <2>2 DEF GoneFromRoot, Exists, c
  <2> QED BY <1>1, <2>1, <2>2, FormsOnly DEF RulesInv
<1>7. CASE f = c
  <2>1. g.abs /\ g.comps # <<>> /\ IsPrefix(g.comps, c.comps)
    BY <1>1, <1>5, <1>7 DEF Forms
  <2>2. CASE g = p
    <3>1. p.abs = c.abs
      BY <1>5, <1>7, <2>2
    <3> QED BY <1>3, <2>1, <2>2, <3>1 DEF Reads, c
  <2>3. CASE g \in Resolved(p)
    <3>1. Guarded(c.comps)
      BY <1>1, <1>3, <2>1, <2>3, PathBegins DEF Lexical
    <3> QED BY <3>1 DEF c
  <2> QED BY <2>2, <2>3 DEF Forms
<1>8. CASE f.abs /\ f.comps = e.place
  <2>1. g.abs /\ IsPrefix(g.comps, e.place)
    BY <1>5, <1>8
  <2> QED BY <1>1, <1>3, <2>1, PlaceBegins
<1> QED BY <1>6, <1>7, <1>8

-----------------------------------------------------------------------------
(* The invariant. *)
LEMMA InitRules ==
  ASSUME Init
  PROVE  RulesInv
BY Ground DEF Init, RulesInv, LinkType, FileType, IsLink, LeadsOn

LEMMA Emitted ==
  ASSUME RulesInv, NEW kind \in {"file", "exec"}, NEW path \in Paths, NEW place \in Seq(Names) \cup {Nowhere},
         place \notin Dirs, place # Nowhere /\ path.abs => place = Walk(<<>>, path.comps),
         Emit(kind, path, place), UNCHANGED link
  PROVE  pending' \subseteq EventType /\ \A e \in pending' : e.place \notin Dirs /\ Placed(e)'
<1> DEFINE new == [kind |-> kind, path |-> path, place |-> place, calm |-> TRUE]
<1>1. pending' = pending \cup {new}
  BY DEF Emit
<1>2. new \in EventType /\ new.place \notin Dirs /\ Placed(new)
  BY DEF EventType, Placed
<1>3. \A e : Placed(e) => Placed(e)'
  BY DEF Placed, Walk
<1> HIDE DEF new
<1> QED BY <1>1, <1>2, <1>3 DEF RulesInv

LEMMA WalkPlace ==
  ASSUME RulesInv, NEW path \in Paths, NEW cwd \in Dirs, Walk(Start(path, cwd), path.comps) # Nowhere
  PROVE  Real(Walk(Start(path, cwd), path.comps))
<1>1. path.comps \in Seq(Parts) /\ Len(path.comps) \in Nat /\ Start(path, cwd) \in Dirs
  BY PathFacts
<1>2. Len(path.comps) \in 0..Len(path.comps)
  BY <1>1
<1> QED BY <1>1, <1>2, WalkReal DEF Walk, RulesInv

LEMMA RulesStep ==
  ASSUME RulesInv, [Next]_vars
  PROVE  RulesInv'
<1>0. \A path \in Opened \cup Executed : path \in Paths
  BY RulesAssumption
<1>1. ASSUME NEW path \in Opened, NEW cwd \in Cwds, NEW creates \in BOOLEAN, OpenWrite(path, cwd, creates)
      PROVE  RulesInv'
  <2> DEFINE place == Walk(Start(path, cwd), path.comps)
             opens == place # Nowhere /\ place \notin Dirs /\ (creates \/ place \in files)
             seen == IF opens THEN place ELSE Nowhere
  <2>1. path \in Paths /\ cwd \in Dirs
    BY <1>0, Ground
  <2>2. place # Nowhere => Real(place)
    BY <2>1, WalkPlace
  <2>3. path.abs => place = Walk(<<>>, path.comps)
    BY DEF Start
  <2>4. Emit("file", path, seen) /\ link' = link /\ files' = IF opens THEN files \cup {place} ELSE files
    BY <1>1 DEF OpenWrite
  <2> HIDE DEF place
  <2>5. FileType' /\ LinkType'
    BY <2>2, <2>4 DEF RulesInv, FileType, LinkType, Real, IsLink
  <2>6. /\ seen \in Seq(Names) \cup {Nowhere} /\ seen \notin Dirs
        /\ seen # Nowhere /\ path.abs => seen = Walk(<<>>, path.comps)
    BY <2>2, <2>3, Ground DEF Real
  <2> HIDE DEF seen, opens
  <2>7. pending' \subseteq EventType /\ \A e \in pending' : e.place \notin Dirs /\ Placed(e)'
    BY <2>1, <2>4, <2>6, Emitted
  <2> QED BY <2>5, <2>7 DEF RulesInv
<1>2. ASSUME NEW path \in Executed, NEW cwd \in Cwds, Exec(path, cwd)
      PROVE  RulesInv'
  <2> DEFINE place == Walk(Start(path, cwd), path.comps)
  <2>1. path \in Paths /\ cwd \in Dirs
    BY <1>0, Ground
  <2>2. Emit("exec", path, place) /\ place \in files /\ link' = link /\ files' = files
    BY <1>2 DEF Exec
  <2>3. path.abs => place = Walk(<<>>, path.comps)
    BY DEF Start
  <2> HIDE DEF place
  <2>4. place \in Seq(Names) \cup {Nowhere} /\ place \notin Dirs
    BY <2>2 DEF RulesInv, FileType
  <2>5. pending' \subseteq EventType /\ \A e \in pending' : e.place \notin Dirs /\ Placed(e)'
    BY <2>1, <2>2, <2>3, <2>4, Emitted
  <2>6. FileType' /\ LinkType'
    BY <2>2 DEF RulesInv, FileType, LinkType, IsLink
  <2> QED BY <2>5, <2>6 DEF RulesInv
<1>3. ASSUME NEW l \in Links, NEW target \in Targets \cup {Nowhere}, Relink(l, target)
      PROVE  RulesInv'
  <2>1. l \notin files /\ link' = [link EXCEPT ![l] = target] /\ files' = files
        /\ pending' = {[e EXCEPT !.calm = FALSE] : e \in pending}
    BY <1>3 DEF Relink
  <2>2. LinkType'
    BY <2>1 DEF RulesInv, LinkType
  <2>3. \A f \in files : link'[f] = link[f] \/ f \notin Links
    BY <2>1 DEF RulesInv, LinkType
  <2>4. FileType'
    BY <2>1, <2>3 DEF RulesInv, FileType, IsLink, LeadsOn
  <2>5. ASSUME NEW e \in pending
        PROVE  LET d == [e EXCEPT !.calm = FALSE] IN d \in EventType /\ d.place \notin Dirs /\ Placed(d)'
    <3>1. e \in EventType /\ e.place \notin Dirs
      BY DEF RulesInv
    <3> DEFINE d == [e EXCEPT !.calm = FALSE]
    <3>2. d \in EventType /\ d.place = e.place /\ d.calm = FALSE
      BY <3>1 DEF EventType
    <3> HIDE DEF d
    <3>3. Placed(d)'
      BY <3>2 DEF Placed
    <3> QED BY <3>1, <3>2, <3>3 DEF d
  <2> QED BY <2>1, <2>2, <2>4, <2>5 DEF RulesInv
<1>4. ASSUME NEW place \in files, Unlink(place)
      PROVE  RulesInv'
  BY <1>4 DEF Unlink, RulesInv, LinkType, FileType, IsLink, Placed, Walk
<1>5. ASSUME NEW e \in pending, Drain(e)
      PROVE  RulesInv'
  BY <1>5 DEF Drain, RulesInv, LinkType, FileType, IsLink, Placed, Walk
<1>6. CASE UNCHANGED vars
  BY <1>6 DEF vars, RulesInv, LinkType, FileType, IsLink, Placed, Walk
<1> QED BY <1>1, <1>2, <1>3, <1>4, <1>5, <1>6 DEF Next

(* The monitor's reports at any moment, whatever the build has done to links
   and files since it wrote (EvalFile, pathMatches): RulesInv always holds. *)
LEMMA AlwaysRules ==
  Spec => []RulesInv
<1>1. Init => RulesInv
  BY InitRules
<1>2. RulesInv /\ [Next]_vars => RulesInv'
  BY RulesStep
<1> QED BY <1>1, <1>2, PTL DEF Spec

(* Every write below a protected path's real place, and every one that reads
   as one, is reported by EvalFile. *)
THEOREM ProtectedWriteFlaggedHolds ==
  Spec => []ProtectedWriteFlagged
<1>1. RulesInv => ProtectedWriteFlagged
  <2> SUFFICES ASSUME RulesInv, NEW e \in pending, e.kind = "file"
               PROVE  /\ Reads(e.path) /\ (\A i \in DOMAIN e.path.comps : e.path.comps[i] # "..") =>
                           Flagged(e)
                      /\ Faithful(e) /\ Guarded(e.place) => Flagged(e)
    BY DEF ProtectedWriteFlagged
  <2>1. e.path \in Paths
    BY DEF RulesInv, EventType
  <2> QED BY <2>1, ReadsFlagged, GuardedFlagged DEF Flagged
<1> QED BY <1>1, AlwaysRules, PTL

(* What EvalFile reports of the writes it can judge is below a protected path,
   by its text or by its place. *)
THEOREM FlaggedWriteIsProtectedHolds ==
  Spec => []FlaggedWriteIsProtected
<1>1. RulesInv => FlaggedWriteIsProtected
  <2> SUFFICES ASSUME RulesInv, NEW e \in pending, Faithful(e), Flagged(e)
               PROVE  \/ Guarded(e.place) \/ Reads(Clean(e.path)) \/ Guarded(Clean(e.path).comps)
                      \/ GoneFromRoot(e)
    BY DEF FlaggedWriteIsProtected
  <2>1. EvalFile(e.path)
    BY DEF Flagged, Faithful
  <2> QED BY <2>1, FlaggedGuarded
<1> QED BY <1>1, AlwaysRules, PTL

(* EvalProcess reports a disallowed name by whatever path it runs, and what
   runs from a disallowed directory by its own path. *)
THEOREM DisallowedExecFlaggedHolds ==
  Spec => []DisallowedExecFlagged
<1>1. RulesInv => DisallowedExecFlagged
  <2> SUFFICES ASSUME RulesInv, NEW e \in pending, e.kind = "exec", NEW p \in Disallowed,
                      \/ /\ p.kind = "name" /\ CommOf[Last(p.comps)] = Last(p.comps)
                         /\ Last(e.path.comps) = Last(p.comps)
                      \/ /\ p.kind = "under" /\ p.comps \in Dirs
                         /\ e.path = [abs |-> TRUE, comps |-> e.place] /\ IsPrefix(p.comps, e.place)
               PROVE  ProcMatches(p, e.path)
    BY DEF DisallowedExecFlagged, Flagged, EvalProcess
  <2>1. e.place \notin Dirs
    BY DEF RulesInv
  <2>2. CASE /\ p.kind = "under" /\ p.comps \in Dirs
             /\ e.path = [abs |-> TRUE, comps |-> e.place] /\ IsPrefix(p.comps, e.place)
    <3>1. e.path.abs /\ e.path.comps = e.place /\ p.comps # e.place
      BY <2>1, <2>2
    <3> QED BY <2>2, <3>1 DEF ProcMatches, IsStrictPrefix
  <2>3. CASE /\ p.kind = "name" /\ CommOf[Last(p.comps)] = Last(p.comps)
             /\ Last(e.path.comps) = Last(p.comps)
    BY <2>3 DEF ProcMatches
  <2> QED BY <2>2, <2>3
<1> QED BY <1>1, AlwaysRules, PTL
=============================================================================
