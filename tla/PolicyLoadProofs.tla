--------------------------- MODULE PolicyLoadProofs --------------------------
(***************************************************************************)
(* Loading a policy stays under its directory and ends; what it loads is the*)
(* merge of the documents it read; and names and networks mean the same to *)
(* everyone who reads them: for any documents, names, widths and depth.    *)
(***************************************************************************)
EXTENDS PolicyLoad, SequenceTheorems, WellFoundedInduction, TLAPS

Entry == [doc : Documents, dir : Path, file : Path]

LEMMA PrefixTrans ==
  ASSUME NEW r \in Path, NEW s \in Path, NEW t \in Path, IsPrefix(r, s), IsPrefix(s, t)
  PROVE  IsPrefix(r, t)
<1>1. Len(r) <= Len(s) /\ Len(s) <= Len(t)
  BY DEF IsPrefix, Path
<1>2. \A i \in 1..Len(r) : r[i] = s[i]
  BY <1>1 DEF IsPrefix, Path
<1>3. \A i \in 1..Len(s) : s[i] = t[i]
  BY <1>1 DEF IsPrefix, Path
<1>4. \A i \in 1..Len(r) : r[i] = t[i]
  BY <1>1, <1>2, <1>3 DEF Path
<1> QED BY <1>1, <1>4 DEF IsPrefix, Path

(* The directory that holds a file below d is d or below it. *)
LEMMA FrontBelow ==
  ASSUME NEW d \in Path, NEW f \in Path, IsPrefix(d, f), f # d
  PROVE  Front(f) \in Path /\ IsPrefix(d, Front(f))
<1>1. Len(d) < Len(f)
  BY DEF IsPrefix, Path
<1>2. Front(f) \in Path /\ Len(Front(f)) = Len(f) - 1
      /\ \A i \in 1..(Len(f) - 1) : Front(f)[i] = f[i]
  <2> DEFINE n == Len(f) - 1
  <2>1. f \in Seq(Components) /\ n \in 0..Len(f) /\ n \in Nat
    BY <1>1 DEF Path
  <2>2. /\ SubSeq(f, 1, n) \in Seq(Components) /\ Len(SubSeq(f, 1, n)) = n
        /\ \A i \in 1..n : SubSeq(f, 1, n)[i] = f[i]
    <3>1. \A i \in 1..n : f[i] \in Components
      BY <2>1
    <3>2. /\ SubSeq(f, 1, n) \in Seq(Components)
          /\ Len(SubSeq(f, 1, n)) = IF 1 <= n THEN n - 1 + 1 ELSE 0
          /\ \A i \in 1..(n - 1 + 1) : SubSeq(f, 1, n)[i] = f[1 + i - 1]
      BY <2>1, <3>1, SubSeqProperties
    <3> HIDE DEF n
    <3>3. n - 1 + 1 = n /\ \A i \in 1..n : 1 + i - 1 = i
      BY <2>1
    <3>4. Len(SubSeq(f, 1, n)) = n
      BY <2>1, <3>2
    <3>5. ASSUME NEW i \in 1..n PROVE SubSeq(f, 1, n)[i] = f[i]
      BY <3>2, <3>3
    <3> QED BY <3>2, <3>4, <3>5
  <2> QED BY <2>2 DEF Front, Path
<1>3. \A i \in 1..Len(d) : d[i] = f[i]
  BY <1>1 DEF IsPrefix, Path
<1> QED BY <1>1, <1>2, <1>3 DEF IsPrefix, Path

-----------------------------------------------------------------------------
Loading == {"resolve", "overlay", "validate", "flag", "ok"}

(* Where the load is says how many documents it has read, and every document
   was read, and resolves its own references, under Root. *)
ChainInv ==
  /\ TypeOK
  /\ Len(chain) <= MaxDepth + 2
  /\ pc = "open" => chain = <<>>
  /\ pc \in {"parse", "resolve", "overlay", "validate"} => chain # <<>>
  /\ pc \in Loading => Len(chain) <= MaxDepth + 1
  /\ pc = "overlay" => left >= 1
  /\ \A i \in 1..Len(chain) :
       /\ IsPrefix(Root, chain[i].dir)
       /\ chain[i].file # NotAFile => IsPrefix(Root, chain[i].file)

LEMMA InitChain == Init => ChainInv
  BY LoadAssumption DEF Init, ChainInv, TypeOK, Loading

(* What is read next extends the chain by a document under Root. *)
LEMMA ReadChain ==
  ASSUME ChainInv, NEW d \in Documents, NEW dir \in Path, NEW file \in Path,
         Len(chain) <= MaxDepth + 1,
         IsPrefix(Root, dir), file # NotAFile => IsPrefix(Root, file),
         Read(d, dir, file)
  PROVE  ChainInv'
<1> DEFINE e == [doc |-> d, dir |-> dir, file |-> file]
<1>1. e \in Entry
  BY DEF Entry
<1>2. chain \in Seq(Entry)
  BY DEF ChainInv, TypeOK, Entry
<1>3. chain' = Append(chain, e)
  BY DEF Read
<1>4. /\ chain' \in Seq(Entry) /\ Len(chain') = Len(chain) + 1
      /\ chain'[Len(chain) + 1] = e
      /\ \A i \in 1..Len(chain) : chain'[i] = chain[i]
  BY <1>1, <1>2, <1>3
<1>5. \A i \in 1..Len(chain') :
        /\ IsPrefix(Root, chain'[i].dir)
        /\ chain'[i].file # NotAFile => IsPrefix(Root, chain'[i].file)
  <2> SUFFICES ASSUME NEW i \in 1..Len(chain')
               PROVE  /\ IsPrefix(Root, chain'[i].dir)
                      /\ chain'[i].file # NotAFile => IsPrefix(Root, chain'[i].file)
    OBVIOUS
  <2>1. CASE i \in 1..Len(chain)
    BY <2>1, <1>4 DEF ChainInv
  <2>2. CASE i = Len(chain) + 1
    BY <2>2, <1>4
  <2> QED BY <2>1, <2>2, <1>2, <1>4
<1>6. TypeOK'
  BY <1>4, LoadAssumption DEF ChainInv, TypeOK, Read, Entry
<1>7. pc' = "parse" /\ chain' # <<>> /\ Len(chain') <= MaxDepth + 2
  BY <1>2, <1>4, LoadAssumption DEF Read
<1> QED BY <1>5, <1>6, <1>7 DEF ChainInv, Loading

(* The other steps keep the chain. *)
LEMMA KeepChain ==
  ASSUME ChainInv, UNCHANGED chain, left' \in 0..Len(chain), pc' \in Loading \cup {"error"},
         pc' \in {"resolve", "overlay", "validate"} => chain # <<>>,
         pc' \in Loading => Len(chain) <= MaxDepth + 1,
         pc' = "overlay" => left' >= 1
  PROVE  ChainInv'
  BY DEF ChainInv, TypeOK, Loading

LEMMA NextChain == ChainInv /\ [Next]_vars => ChainInv'
<1> SUFFICES ASSUME ChainInv, [Next]_vars PROVE ChainInv'
  OBVIOUS
<1> USE LoadAssumption
<1>0. /\ chain \in Seq(Entry) /\ left \in 0..Len(chain) /\ Len(chain) \in Nat
      /\ chain # <<>> => Top \in Entry /\ IsPrefix(Root, Top.dir)
  <2>1. chain \in Seq(Entry) /\ left \in 0..Len(chain)
    BY DEF ChainInv, TypeOK, Entry
  <2>2. ASSUME chain # <<>> PROVE Top \in Entry /\ IsPrefix(Root, Top.dir)
    <3>1. Len(chain) \in 1..Len(chain)
      BY <2>1, <2>2
    <3> QED BY <2>1, <3>1 DEF ChainInv, Top, Last
  <2> QED BY <2>1, <2>2
<1>1. ASSUME NEW d \in Documents, Open(d) PROVE ChainInv'
  <2>1. IsPrefix(Root, Root)
    BY DEF Path, IsPrefix
  <2>2. Append(Root, File) \in Path
    BY DEF Path
  <2>3. IsPrefix(Root, Append(Root, File))
    <3>1. /\ Len(Append(Root, File)) = Len(Root) + 1
          /\ \A i \in 1..Len(Root) : Append(Root, File)[i] = Root[i]
      BY DEF Path
    <3> QED BY <2>2, <3>1 DEF Path, IsPrefix
  <2>4. Len(chain) <= MaxDepth + 1
    BY <1>1 DEF Open, ChainInv
  <2> QED BY <1>1, <2>1, <2>2, <2>3, <2>4, ReadChain DEF Open
<1>2. ASSUME NEW d \in Documents, ResolveLocal(d) PROVE ChainInv'
  <2> DEFINE real == Top.doc.extends.real
  <2>1. /\ Top \in Entry /\ IsPrefix(Root, Top.dir) /\ Len(chain) <= MaxDepth + 1
        /\ IsPrefix(Top.dir, real) /\ real # Top.dir
    BY <1>0, <1>2 DEF ResolveLocal, Confined, ChainInv, Loading
  <2>2. Top.dir \in Path /\ real \in Path
    BY <2>1 DEF Entry
  <2>3. IsPrefix(Root, real) /\ Front(real) \in Path /\ IsPrefix(Top.dir, Front(real))
    BY <2>1, <2>2, PrefixTrans, FrontBelow
  <2>4. IsPrefix(Root, Front(real))
    BY <2>1, <2>2, <2>3, PrefixTrans
  <2> QED BY <1>2, <2>1, <2>2, <2>3, <2>4, ReadChain DEF ResolveLocal
<1>3. ASSUME NEW d \in Documents, ResolveRemote(d) PROVE ChainInv'
  <2>1. Top.dir \in Path /\ IsPrefix(Root, Top.dir) /\ Len(chain) <= MaxDepth + 1
    BY <1>0, <1>3 DEF ResolveRemote, ChainInv, Loading, Entry
  <2>2. NotAFile \in Path
    BY DEF NotAFile, Path
  <2> QED BY <1>3, <2>1, <2>2, ReadChain DEF ResolveRemote
<1>4. CASE Fail
  BY <1>0, <1>4, KeepChain DEF Fail, Loading
<1>5. CASE Parse
  <2>1. CASE Fail  BY <2>1, <1>4
  <2>2. CASE ~ TooDeep(Len(chain) - 1) /\ UNCHANGED chain /\ pc' \in {"overlay", "resolve"}
             /\ left' \in {left, Len(chain)} /\ (pc' = "overlay" => left' = Len(chain))
    <3>1. chain # <<>> /\ Len(chain) <= MaxDepth + 1
      BY <1>0, <1>5, <2>2 DEF Parse, TooDeep, ChainInv
    <3>2. Len(chain) >= 1
      BY <1>0, <3>1
    <3> QED BY <1>0, <2>2, <3>1, <3>2, KeepChain DEF Loading
  <2> QED BY <1>5, <2>1, <2>2 DEF Parse, Fail
<1>6. CASE Overlay
  <2>1. CASE Fail  BY <2>1, <1>4
  <2>2. CASE UNCHANGED chain /\ left' = left - 1
             /\ pc' = IF left = 1 THEN "validate" ELSE "overlay"
    <3>1. left \in 1..Len(chain) /\ chain # <<>> /\ Len(chain) <= MaxDepth + 1
      BY <1>0, <1>6 DEF Overlay, ChainInv, Loading
    <3> QED BY <1>0, <2>2, <3>1, KeepChain DEF Loading
  <2> QED BY <1>6, <2>1, <2>2 DEF Overlay
<1>7. CASE Validate
  <2>1. CASE Fail  BY <2>1, <1>4
  <2>2. CASE UNCHANGED <<chain, left>> /\ pc' = "flag"
    BY <1>0, <1>7, <2>2, KeepChain DEF Validate, ChainInv, Loading
  <2> QED BY <1>7, <2>1, <2>2 DEF Validate
<1>8. ASSUME NEW m \in ModeFlags, ModeFlag(m) PROVE ChainInv'
  <2>1. CASE Fail  BY <2>1, <1>4
  <2>2. CASE UNCHANGED <<chain, left>> /\ pc' = "ok"
    BY <1>0, <1>8, <2>2, KeepChain DEF ModeFlag, ChainInv, Loading
  <2> QED BY <1>8, <2>1, <2>2 DEF ModeFlag
<1>9. CASE NoConfig
  BY <1>0, <1>9, KeepChain DEF NoConfig, ChainInv, Loading
<1>10. CASE UNCHANGED vars
  BY <1>10 DEF ChainInv, TypeOK, vars
<1> QED
  BY <1>1, <1>2, <1>3, <1>4, <1>5, <1>6, <1>7, <1>8, <1>9, <1>10 DEF Next, ReadFails, Done

LEMMA ChainHolds == Spec => []ChainInv
  BY InitChain, NextChain, PTL DEF Spec

THEOREM LoadTypeCorrect == Spec => []TypeOK
<1>1. ChainInv => TypeOK  BY DEF ChainInv
<1> QED BY <1>1, ChainHolds, PTL

(* resolveRef's confinement, which it checks one reference at a time, holds of
   the whole chain. *)
THEOREM ReadsConfinedHolds == Spec => []ReadsConfined
<1>1. ChainInv => ReadsConfined
  BY DEF ChainInv, ReadsConfined, TypeOK
<1> QED BY <1>1, ChainHolds, PTL

(* No chain of references, and no cycle of them, is followed further than
   maxExtendsDepth. *)
THEOREM DepthBoundedHolds == Spec => []DepthBounded
<1>1. ChainInv => DepthBounded
  BY DEF ChainInv, DepthBounded, Loading
<1> QED BY <1>1, ChainHolds, PTL


-----------------------------------------------------------------------------
(* allowed-ips. *)
Policies == [mode : {pol.mode}, blockRawIP : {pol.blockRawIP}, endpoints : {pol.endpoints},
             ips : {pol.ips}, nets : {pol.nets}]

(* What is in force was parsed from the list, once it is accepted. *)
NetsInv ==
  /\ pol \in Policies
  /\ pc = "open" => pol = Default
  /\ \A n \in ToSet(pol.nets) : To4(n) = n
  /\ pc \in {"flag", "ok"} => ValidNets(pol.ips)

LEMMA Widths == Width4 \in Nat /\ Width6 \in Nat /\ Width4 >= 1 /\ Width6 >= 2 /\ Width4 # Width6
<1>1. Len(Mapped) \in Nat
  BY WidthAssumption
<1> QED BY <1>1, WidthAssumption

LEMMA To4Twice ==
  ASSUME NEW n
  PROVE  To4(To4(n)) = To4(n)
BY Widths DEF To4

LEMMA To4Net ==
  ASSUME NEW n, n.width \in {Width4, Width6}, n.bits \in Seq({0, 1})
  PROVE  To4(n).width \in {Width4, Width6} /\ To4(n).bits \in Seq({0, 1})
<1>1. CASE n.width = Width6 /\ IsPrefix(Mapped, n.bits)
  <2> DEFINE b == n.bits
  <2>1. CutPrefix(b, Mapped) = SubSeq(b, Len(Mapped) + 1, Len(b))
    BY DEF CutPrefix
  <2>2. SubSeq(b, Len(Mapped) + 1, Len(b)) \in Seq({0, 1})
    <3> DEFINE k == Len(Mapped) + 1
               m == Len(b)
    <3>1. k \in Int /\ m \in Int /\ k >= 1
      BY WidthAssumption
    <3>2. \A i \in k..m : b[i] \in {0, 1}
      BY <3>1
    <3> HIDE DEF k, m
    <3>3. SubSeq(b, k, m) \in Seq({0, 1})
      BY <3>1, <3>2, SubSeqProperties
    <3> QED BY <3>3 DEF k, m
  <2> QED BY <1>1, <2>1, <2>2 DEF To4
<1>2. CASE ~ (n.width = Width6 /\ IsPrefix(Mapped, n.bits))
  BY <1>2 DEF To4
<1> QED BY <1>1, <1>2

LEMMA NetsKept == Spec => []NetsInv
<1>1. Init => NetsInv
  BY DEF Init, NetsInv, Policies, Default, ToSet
<1>2. NetsInv /\ [Next]_vars => NetsInv'
  <2> SUFFICES ASSUME NetsInv, [Next]_vars PROVE NetsInv'
    OBVIOUS
  <2>1. ASSUME UNCHANGED pol, pc' # "open",
               pc' \in {"flag", "ok"} => pc \in {"open", "flag", "ok"}
        PROVE  NetsInv'
    <3>1. pc' \in {"flag", "ok"} => ValidNets(pol.ips)
      <4>1. ValidNets(Default.ips)
        BY DEF Default, ValidNets, ToSet
      <4> QED BY <2>1, <4>1 DEF NetsInv
    <3> QED BY <2>1, <3>1 DEF NetsInv, Policies
  <2>2. CASE Fail
    BY <2>1, <2>2 DEF Fail
  <2>3. ASSUME NEW d \in Documents, Open(d) \/ ResolveLocal(d) \/ ResolveRemote(d) PROVE NetsInv'
    BY <2>1, <2>3 DEF Open, ResolveLocal, ResolveRemote, Read
  <2>4. ASSUME NEW p, pol' = p, pc' \notin {"open", "flag", "ok"}, p = Default \/ \E d : p = Merge(pol, d)
        PROVE  NetsInv'
    BY <2>4 DEF NetsInv, Policies, Default, Merge, ToSet
  <2>5. CASE Parse
    BY <2>1, <2>2, <2>4, <2>5 DEF Parse
  <2>6. CASE Overlay
    BY <2>2, <2>4, <2>6 DEF Overlay
  <2>7. CASE Validate
    <3> DEFINE nets == ParseNets(pol.ips)
               p == [pol EXCEPT !.nets = nets]
    <3>1. CASE Fail
      BY <2>2, <3>1
    <3>2. CASE Valid(pol) /\ pol' = p /\ pc' = "flag"
      <4>1. \A n \in ToSet(nets) : To4(n) = n
        BY To4Twice DEF ParseNets, ToSet, Canonicalize
      <4> HIDE DEF nets
      <4>2. /\ p.nets = nets /\ p.ips = pol.ips /\ p.mode = pol.mode
            /\ p.blockRawIP = pol.blockRawIP /\ p.endpoints = pol.endpoints
            /\ p = [mode |-> p.mode, blockRawIP |-> p.blockRawIP, endpoints |-> p.endpoints,
                    ips |-> p.ips, nets |-> p.nets]
        BY DEF NetsInv, Policies
      <4> HIDE DEF p
      <4>3. ValidNets(p.ips) /\ \A n \in ToSet(p.nets) : To4(n) = n
        BY <3>2, <4>1, <4>2 DEF Valid
      <4>4. (pol \in Policies)'
        BY <3>2, <4>2 DEF Policies
      <4> QED BY <3>2, <4>3, <4>4 DEF NetsInv
    <3> QED BY <2>7, <3>1, <3>2 DEF Validate
  <2>8. ASSUME NEW m \in ModeFlags, ModeFlag(m) PROVE NetsInv'
    <3> DEFINE p == [pol EXCEPT !.mode = m]
    <3>1. CASE Fail
      BY <2>2, <3>1
    <3>2. CASE pc = "flag" /\ pc' = "ok" /\ UNCHANGED pol
      BY <2>1, <3>2
    <3>3. CASE pc = "flag" /\ pc' = "ok" /\ pol' = p
      <4>1. /\ p.nets = pol.nets /\ p.ips = pol.ips
            /\ p = [mode |-> p.mode, blockRawIP |-> p.blockRawIP, endpoints |-> p.endpoints,
                    ips |-> p.ips, nets |-> p.nets]
        BY DEF NetsInv, Policies
      <4> HIDE DEF p
      <4>2. (pol \in Policies)'
        BY <3>3, <4>1 DEF Policies
      <4> QED BY <3>3, <4>1, <4>2 DEF NetsInv
    <3> QED BY <2>8, <3>1, <3>2, <3>3 DEF ModeFlag
  <2>9. CASE NoConfig
    BY <2>1, <2>9 DEF NoConfig
  <2>10. CASE UNCHANGED vars
    BY <2>10 DEF vars, NetsInv, Policies
  <2> QED
    BY <2>2, <2>3, <2>5, <2>6, <2>7, <2>8, <2>9, <2>10 DEF Next, ReadFails, Done
<1> QED BY <1>1, <1>2, PTL DEF Spec

(* nftFirewall.Setup splits AllowedIPNets by To4 and the rules match the
   packet's own family, while Policy.AllowsIP asks net.IPNet.Contains: for
   every address of either width the two accept the same. *)
THEOREM FilterMatchesPolicyHolds == Spec => []FilterMatchesPolicy
<1>1. NetsInv => FilterMatchesPolicy
  <2> SUFFICES ASSUME NetsInv, NEW a \in Addresses
               PROVE  FilterAccepts(pol.nets, a) <=> AllowsIP(pol.nets, a)
    BY DEF FilterMatchesPolicy
  <2> DEFINE wire == To4(a)
  <2>1. wire.width \in {Width4, Width6}
    BY DEF Addresses, To4
  <2>2. \A n \in ToSet(pol.nets) : To4(n) = n
    BY DEF NetsInv
  <2> HIDE DEF wire
  <2>3. FilterAccepts(pol.nets, a) <=> \E n \in ToSet(pol.nets) : Covers(n, wire)
    <3>1. CASE wire.width = Width4
      BY <2>2, <3>1, Widths DEF FilterAccepts, StaticSets, Covers, wire
    <3>2. CASE wire.width = Width6
      BY <2>2, <3>2, Widths DEF FilterAccepts, StaticSets, Covers, wire
    <3> QED BY <2>1, <3>1, <3>2
  <2>4. AllowsIP(pol.nets, a) <=> \E n \in ToSet(pol.nets) : Covers(n, wire)
    BY <2>2 DEF AllowsIP, NetContains, wire
  <2> QED BY <2>3, <2>4
<1> QED BY <1>1, NetsKept, PTL

(* One address of a family that a network with a first bit does not cover. *)
LEMMA Outside ==
  ASSUME NEW n, n.width \in {Width4, Width6}, n.bits \in Seq({0, 1}), n.bits # <<>>,
         NEW w \in {Width4, Width6}
  PROVE  \E a \in Addresses : To4(a).width = w /\ ~ Covers(n, To4(a))
<1> DEFINE b == n.bits[1]
<1>1. b \in {0, 1} /\ 1 \in 1..Len(n.bits) /\ n.bits[1] = b
  OBVIOUS
<1> HIDE DEF b
<1>2. /\ Mapped \in Seq({0, 1}) /\ 2 \in 1..Len(Mapped)
      /\ Mapped[1] \in {0, 1} /\ Mapped[2] \in {0, 1}
  BY WidthAssumption
<1>3. ASSUME NEW v \in {Width4, Width6}, NEW bits \in [1..v -> {0, 1}]
      PROVE  bits \in Seq({0, 1}) /\ Len(bits) = v /\ [width |-> v, bits |-> bits] \in Addresses
  <2>1. bits \in Seq({0, 1}) /\ Len(bits) = v
    BY Widths, <1>3
  <2> DEFINE Of(u) == {[width |-> u, bits |-> c] : c \in [1..u -> {0, 1}]}
  <2>2. [width |-> v, bits |-> bits] \in Of(v)
    BY <1>3
  <2>3. Addresses = UNION {Of(u) : u \in {Width4, Width6}}
    BY DEF Addresses
  <2> HIDE DEF Of
  <2>4. [width |-> v, bits |-> bits] \in Addresses
    BY <1>3, <2>2, <2>3
  <2> QED BY <2>1, <2>4
<1>4. ASSUME NEW s \in Seq({0, 1}), NEW t \in Seq({0, 1}), IsPrefix(s, t), NEW i \in 1..Len(s)
      PROVE  s[i] = t[i]
  BY <1>4 DEF IsPrefix
<1>5. CASE w = Width4
  <2> DEFINE bits == [i \in 1..w |-> 1 - b]
             a == [width |-> w, bits |-> bits]
  <2>1. bits \in [1..w -> {0, 1}] /\ bits[1] # b
    BY <1>1, <1>5, Widths
  <2>2. bits \in Seq({0, 1}) /\ a \in Addresses
    BY <1>3, <2>1
  <2>3. To4(a) = a
    BY <1>5, Widths DEF To4
  <2> HIDE DEF bits
  <2>4. ~ IsPrefix(n.bits, bits)
    BY <1>1, <1>4, <2>1, <2>2
  <2>5. ~ Covers(n, a)
    BY <2>4 DEF Covers
  <2> QED BY <2>2, <2>3, <2>5
<1>6. CASE w = Width6
  <2> DEFINE bits == [i \in 1..w |-> IF i = 1 THEN 1 - b ELSE 1 - Mapped[2]]
             a == [width |-> w, bits |-> bits]
  <2>1. bits \in [1..w -> {0, 1}] /\ bits[1] # b /\ bits[2] # Mapped[2]
    BY <1>1, <1>2, <1>6, Widths
  <2>2. bits \in Seq({0, 1}) /\ a \in Addresses
    BY <1>3, <2>1
  <2> HIDE DEF bits
  <2>3. ~ IsPrefix(Mapped, bits)
    BY <1>2, <1>4, <2>1, <2>2
  <2>4. To4(a) = a
    BY <2>3 DEF To4
  <2>5. ~ IsPrefix(n.bits, bits)
    BY <1>1, <1>4, <2>1, <2>2
  <2>6. ~ Covers(n, a)
    BY <2>5 DEF Covers
  <2> QED BY <2>2, <2>4, <2>6
<1> QED BY <1>5, <1>6

(* parseAllowedIPs refuses a /0 after canonicalizeIPNet: no entry of an accepted
   policy, in whichever form it is written, opens a whole address family. *)
THEOREM NoWholeFamilyHolds == Spec => []NoWholeFamily
<1>1. NetsInv => NoWholeFamily
  <2> SUFFICES ASSUME NetsInv, pc = "ok", NEW n \in ToSet(pol.ips), NEW w \in {Width4, Width6}
               PROVE  \E a \in Addresses : To4(a).width = w /\ ~ NetContains(n, a)
    BY DEF NoWholeFamily
  <2>1. IsNet(n) /\ To4(n).bits # <<>>
    BY DEF NetsInv, ValidNets, Canonicalize
  <2>2. To4(n).width \in {Width4, Width6} /\ To4(n).bits \in Seq({0, 1})
    BY <2>1, To4Net DEF IsNet
  <2>3. PICK a \in Addresses : To4(a).width = w /\ ~ Covers(To4(n), To4(a))
    BY <2>1, <2>2, Outside
  <2> QED BY <2>3 DEF NetContains
<1> QED BY <1>1, NetsKept, PTL


-----------------------------------------------------------------------------
(* A set of numbers that has 0 and with each number the next one has all. *)
LEMMA EveryNumber ==
  ASSUME NEW T \in SUBSET Nat, 0 \in T, \A n \in T : n + 1 \in T
  PROVE  T = Nat
<1> SUFFICES ASSUME Nat \ T # {} PROVE FALSE
  OBVIOUS
<1>1. PICK n \in Nat \ T : \A m \in Nat \ T : ~ (<<m, n>> \in OpToRel(<, Nat))
  BY NatLessThanWellFounded, WFMin
<1>2. \A m \in Nat \ T : ~ (m < n)
  BY <1>1 DEF OpToRel
<1>3. n - 1 \in Nat /\ n - 1 < n /\ (n - 1) + 1 = n
  OBVIOUS
<1>4. n - 1 \in T
  BY <1>2, <1>3
<1> QED BY <1>3, <1>4

(* One turn of the loop of unionDedup. *)
Turn(out, s, n) ==
  IF n = 0 THEN <<>>
  ELSE IF s[n] = <<>> \/ s[n] \in ToSet(out[n - 1]) THEN out[n - 1]
  ELSE Append(out[n - 1], s[n])

LEMMA TurnsIs ==
  ASSUME NEW base, NEW over, Len(base \o over) \in Nat
  PROVE  LET s == base \o over
         IN  \E out : /\ out = [n \in 0..Len(s) |-> Turn(out, s, n)]
                      /\ UnionDedup(base, over) = out[Len(s)]
<1> DEFINE s == base \o over
           Solves(out, n) == out = [i \in 0..n |-> Turn(out, s, i)]
           T == {n \in Nat : \E out : Solves(out, n)}
<1>1. UnionDedup(base, over) = (CHOOSE out : Solves(out, Len(s)))[Len(s)]
  BY DEF UnionDedup, Turn
<1> HIDE DEF s
<1>2. 0 \in T
  <2>1. Solves([i \in 0..0 |-> <<>>], 0)
    BY DEF Turn
  <2> QED BY <2>1
<1>3. ASSUME NEW n \in T PROVE n + 1 \in T
  <2>1. PICK out : Solves(out, n)
    OBVIOUS
  <2> DEFINE new == Turn(out, s, n + 1)
             longer == [i \in 0..(n + 1) |-> IF i = n + 1 THEN new ELSE out[i]]
  <2>2. ASSUME NEW i \in 0..(n + 1) PROVE longer[i] = Turn(longer, s, i)
    <3>1. CASE i = 0
      BY <2>1, <3>1 DEF Turn
    <3>2. CASE i # 0
      <4>1. i - 1 \in 0..n /\ longer[i - 1] = out[i - 1]
        BY <3>2
      <4>2. i # n + 1 => i \in 0..n
        OBVIOUS
      <4> QED BY <2>1, <3>2, <4>1, <4>2 DEF Turn
    <3> QED BY <3>1, <3>2
  <2>3. Solves(longer, n + 1)
    BY <2>2
  <2> QED BY <2>3
<1> HIDE DEF T
<1>4. T = Nat
  <2>1. T \in SUBSET Nat
    BY DEF T
  <2> QED BY <1>2, <1>3, <2>1, EveryNumber
<1>5. \E out : Solves(out, Len(s))
  BY <1>4 DEF T, s
<1>6. Solves(CHOOSE out : Solves(out, Len(s)), Len(s))
  BY <1>5
<1> QED BY <1>1, <1>6 DEF s

(* A list as unionDedup leaves it. *)
Tidy(s) ==
  /\ \A i \in 1..Len(s) : s[i] # <<>>
  /\ \A i, j \in 1..Len(s) : i < j => s[i] # s[j]

LEMMA InTheList ==
  ASSUME NEW S, NEW s \in Seq(S)
  PROVE  /\ ToSet(s) = {s[i] : i \in 1..Len(s)} /\ ToSet(s) \subseteq S
         /\ Len(s) \in Nat
BY DEF ToSet

LEMMA AppendIs ==
  ASSUME NEW S, NEW s \in Seq(S), NEW e \in S
  PROVE  /\ Append(s, e) \in Seq(S)
         /\ Len(Append(s, e)) = Len(s) + 1
         /\ Append(s, e)[Len(s) + 1] = e
         /\ \A i \in 1..Len(s) : Append(s, e)[i] = s[i]
         /\ ToSet(Append(s, e)) = ToSet(s) \cup {e}
<1>1. /\ Append(s, e) \in Seq(S) /\ Len(s) \in Nat
      /\ Len(Append(s, e)) = Len(s) + 1
      /\ Append(s, e)[Len(s) + 1] = e
      /\ \A i \in 1..Len(s) : Append(s, e)[i] = s[i]
  OBVIOUS
<1> DEFINE t == Append(s, e)
<1> HIDE DEF t
<1>2. ToSet(t) = {t[i] : i \in 1..Len(t)} /\ ToSet(s) = {s[i] : i \in 1..Len(s)}
  BY <1>1, InTheList DEF t
<1>3. 1..Len(t) = 1..Len(s) \cup {Len(s) + 1}
  BY <1>1 DEF t
<1>4. ToSet(t) = ToSet(s) \cup {e}
  BY <1>1, <1>2, <1>3 DEF t
<1> QED BY <1>1, <1>4 DEF t

(* unionDedup keeps what it is laid over, in its place, adds what is new and
   repeats nothing. *)
LEMMA UnionDedupIs ==
  ASSUME NEW S, NEW base \in Seq(S), NEW over \in Seq(S), Tidy(base)
  PROVE  LET r == UnionDedup(base, over)
         IN  /\ r \in Seq(S) /\ Tidy(r)
             /\ ToSet(r) = (ToSet(base) \cup ToSet(over)) \ {<<>>}
             /\ Len(base) <= Len(r)
             /\ \A i \in 1..Len(base) : r[i] = base[i]
<1> DEFINE s == base \o over
           m == Len(base)
<1>1. /\ s \in Seq(S) /\ Len(s) = m + Len(over) /\ m \in Nat /\ Len(over) \in Nat /\ Len(s) \in Nat
      /\ \A i \in 1..m : s[i] = base[i]
      /\ \A i \in 1..Len(over) : s[m + i] = over[i]
  OBVIOUS
<1>2. PICK out : /\ out = [n \in 0..Len(s) |-> Turn(out, s, n)]
                 /\ UnionDedup(base, over) = out[Len(s)]
  BY <1>1, TurnsIs
<1>3. \A i \in 1..m : base[i] # <<>> /\ \A j \in 1..m : i < j => base[i] # base[j]
  BY DEF Tidy
<1>4. ToSet(base) = {base[i] : i \in 1..m} /\ ToSet(over) = {over[i] : i \in 1..Len(over)}
  BY InTheList
<1> HIDE DEF s, m
<1> DEFINE Seen(n) == {s[i] : i \in 1..n} \ {<<>>}
           Good(n) == /\ out[n] \in Seq(S) /\ Tidy(out[n])
                      /\ ToSet(out[n]) = Seen(n)
                      /\ n <= m => Len(out[n]) = n
                      /\ \A i \in 1..m : i <= n => i <= Len(out[n]) /\ out[n][i] = base[i]
           T == {n \in Nat : n <= Len(s) => Good(n)}
<1>5. 0 \in T
  <2>1. out[0] = <<>>
    BY <1>1, <1>2 DEF Turn
  <2>2. Good(0)
    BY <1>1, <2>1 DEF Tidy, ToSet
  <2> QED BY <2>2
<1>6. ASSUME NEW n \in T PROVE n + 1 \in T
  <2> HIDE DEF Good
  <2> SUFFICES ASSUME n + 1 <= Len(s) PROVE Good(n + 1)
    OBVIOUS
  <2> DEFINE o == out[n]
             e == s[n + 1]
  <2>1. n \in Nat /\ n <= Len(s) /\ n + 1 \in 1..Len(s) /\ n + 1 \in 0..Len(s) /\ (n + 1) - 1 = n /\ n + 1 # 0
    BY <1>1
  <2>2. Good(n)
    BY <2>1
  <2> USE DEF Good
  <2>3. out[n + 1] = IF e = <<>> \/ e \in ToSet(o) THEN o ELSE Append(o, e)
    BY <1>2, <2>1 DEF Turn
  <2>4. e \in S
    BY <1>1, <2>1
  <2>5. Seen(n + 1) = (Seen(n) \cup {e}) \ {<<>>}
    <3>1. 1..(n + 1) = 1..n \cup {n + 1}
      BY <2>1
    <3> QED BY <3>1
  <2>6. n + 1 <= m => e = base[n + 1] /\ e # <<>> /\ e \notin ToSet(o)
    <3> SUFFICES ASSUME n + 1 <= m PROVE e = base[n + 1] /\ e # <<>> /\ e \notin ToSet(o)
      OBVIOUS
    <3>1. n + 1 \in 1..m
      BY <1>1, <2>1
    <3>2. e = base[n + 1] /\ e # <<>>
      BY <1>1, <1>3, <3>1
    <3>3. ASSUME e \in Seen(n) PROVE FALSE
      <4>1. PICK i \in 1..n : e = s[i]
        BY <3>3
      <4>2. i \in 1..m /\ i < n + 1
        <5>1. m \in Nat /\ n \in Nat /\ n + 1 <= m
          BY <1>1, <2>1
        <5> QED BY <5>1
      <4>3. s[i] = base[i]
        BY <1>1, <4>2
      <4> QED BY <1>3, <3>1, <3>2, <4>1, <4>2, <4>3
    <3> QED BY <2>2, <3>2, <3>3
  <2> HIDE DEF e
  <2>7. CASE e = <<>> \/ e \in ToSet(o)
    <3>1. out[n + 1] = o /\ ~ (n + 1 <= m)
      BY <2>3, <2>6, <2>7
    <3>2. Seen(n + 1) = Seen(n)
      BY <2>2, <2>5, <2>7
    <3>3. ASSUME NEW i \in 1..m, i <= n + 1 PROVE i <= Len(o) /\ o[i] = base[i]
      <4>1. i <= n
        BY <1>1, <2>1, <3>1
      <4> QED BY <2>2, <4>1
    <3> HIDE DEF Seen
    <3> QED BY <2>2, <3>1, <3>2, <3>3
  <2>8. CASE ~ (e = <<>> \/ e \in ToSet(o))
    <3>1. out[n + 1] = Append(o, e)
      BY <2>3, <2>8
    <3> DEFINE t == Append(o, e)
               l == Len(o)
    <3>2. /\ t \in Seq(S) /\ Len(t) = l + 1 /\ t[l + 1] = e /\ l \in Nat
          /\ \A i \in 1..l : t[i] = o[i]
          /\ ToSet(t) = ToSet(o) \cup {e}
      BY <2>2, <2>4, AppendIs
    <3>3. ToSet(o) = {o[i] : i \in 1..l}
      BY <2>2, InTheList
    <3> HIDE DEF t, l
    <3>4. ToSet(t) = Seen(n + 1)
      BY <2>2, <2>5, <2>8, <3>2
    <3>5. Tidy(t)
      <4>1. ASSUME NEW i \in 1..Len(t) PROVE t[i] # <<>>
        <5>1. i \in 1..l \/ i = l + 1
          BY <3>2
        <5> QED BY <2>2, <2>8, <3>2, <5>1 DEF Tidy, l
      <4>2. ASSUME NEW i \in 1..Len(t), NEW j \in 1..Len(t), i < j PROVE t[i] # t[j]
        <5>1. i \in 1..l /\ (j \in 1..l \/ j = l + 1)
          BY <3>2, <4>2
        <5>2. CASE j \in 1..l
          BY <2>2, <3>2, <4>2, <5>1, <5>2 DEF Tidy, l
        <5>3. CASE j = l + 1
          BY <2>8, <3>2, <3>3, <5>1, <5>3
        <5> QED BY <5>1, <5>2, <5>3
      <4> QED BY <4>1, <4>2 DEF Tidy
    <3>6. n + 1 <= m => Len(t) = n + 1
      BY <1>1, <2>1, <2>2, <3>2 DEF l
    <3>7. ASSUME NEW i \in 1..m, i <= n + 1 PROVE i <= Len(t) /\ t[i] = base[i]
      <4>1. CASE i <= n
        <5>1. i <= l /\ o[i] = base[i] /\ i \in 1..l
          BY <1>1, <2>2, <3>2, <4>1 DEF l
        <5> QED BY <3>2, <5>1
      <4>2. CASE i = n + 1
        <5>1. n + 1 <= m /\ l = n
          BY <1>1, <2>1, <2>2, <4>2 DEF l
        <5> QED BY <2>6, <3>2, <4>2, <5>1
      <4> QED BY <1>1, <2>1, <3>7, <4>1, <4>2
    <3> HIDE DEF Seen
    <3> QED BY <3>1, <3>2, <3>4, <3>5, <3>6, <3>7 DEF t
  <2> QED BY <2>7, <2>8
<1>7. T = Nat
  <2>1. T \in SUBSET Nat
    OBVIOUS
  <2> HIDE DEF T
  <2> QED BY <1>5, <1>6, <2>1, EveryNumber
<1>8. Good(Len(s))
  <2> HIDE DEF Good
  <2>1. Len(s) \in T /\ Len(s) <= Len(s)
    BY <1>1, <1>7
  <2> QED BY <2>1
<1>9. Seen(Len(s)) = (ToSet(base) \cup ToSet(over)) \ {<<>>}
  <2> DEFINE l == Len(over)
             w == Len(s)
  <2>1. m \in Nat /\ l \in Nat /\ w = m + l
    BY <1>1
  <2>2. (\A i \in 1..m : s[i] = base[i]) /\ (\A i \in 1..l : s[m + i] = over[i])
    BY <1>1
  <2>3. ToSet(base) = {base[i] : i \in 1..m} /\ ToSet(over) = {over[i] : i \in 1..l}
    BY <1>4
  <2> HIDE DEF l, w
  <2>4. ASSUME NEW i \in 1..w PROVE s[i] \in ToSet(base) \cup ToSet(over)
    <3>1. CASE i <= m
      <4>1. i \in 1..m
        BY <2>1, <3>1
      <4> QED BY <2>2, <2>3, <4>1
    <3>2. CASE ~ (i <= m)
      <4>1. i - m \in 1..l /\ m + (i - m) = i
        BY <2>1, <3>2
      <4>2. s[i] = over[i - m]
        BY <2>2, <4>1
      <4> QED BY <2>3, <4>1, <4>2
    <3> QED BY <3>1, <3>2
  <2>5. ASSUME NEW e \in ToSet(base) PROVE e \in {s[i] : i \in 1..w}
    <3>1. PICK i \in 1..m : e = base[i]
      BY <2>3
    <3>2. i \in 1..w /\ s[i] = e
      BY <2>1, <2>2, <3>1
    <3> QED BY <3>2
  <2>6. ASSUME NEW e \in ToSet(over) PROVE e \in {s[i] : i \in 1..w}
    <3>1. PICK i \in 1..l : e = over[i]
      BY <2>3
    <3>2. m + i \in 1..w
      BY <2>1
    <3>3. s[m + i] = e
      BY <2>2, <3>1
    <3> QED BY <3>2, <3>3
  <2>7. {s[i] : i \in 1..w} = ToSet(base) \cup ToSet(over)
    BY ONLY <2>4, <2>5, <2>6
  <2> QED BY <2>7 DEF w
<1>10. \A i \in 1..m : i <= Len(s)
  BY <1>1
<1> DEFINE r == out[Len(s)]
<1>11. m <= Len(r)
  <2>1. CASE m = 0
    BY <1>8, <2>1
  <2>2. CASE m # 0
    BY <1>1, <1>8, <1>10, <2>2
  <2> QED BY <2>1, <2>2
<1> HIDE DEF Seen
<1> QED BY <1>2, <1>8, <1>9, <1>10, <1>11 DEF m


-----------------------------------------------------------------------------
(* What is laid over the defaults: the documents from number n + 1 on. *)
Lists == {"endpoints", "ips"}
Scalars == {"mode", "blockRawIP"}
Items(key) == UNION {ToSet(d[key]) : d \in Documents}
Sets(c, i, key) == c[i].doc[key] # Unset
Has(c, i, key, e) == e \in ToSet(c[i].doc[key])

DeepIn(c, key, e) == CHOOSE i \in DOMAIN c : Has(c, i, key, e) /\ \A j \in DOMAIN c : Has(c, j, key, e) => j <= i

ScalarFrom(c, value, key, n) ==
  \/ value = Default[key] /\ \A i \in (n + 1)..Len(c) : ~ Sets(c, i, key)
  \/ \E i \in (n + 1)..Len(c) :
       /\ value = c[i].doc[key] /\ Sets(c, i, key)
       /\ \A j \in (n + 1)..(i - 1) : ~ Sets(c, j, key)

ListFrom(c, s, key, n) ==
  /\ s \in Seq(Items(key)) /\ Tidy(s)
  /\ \A e : e \in ToSet(s) <=> e # <<>> /\ \E i \in (n + 1)..Len(c) : Has(c, i, key, e)
  /\ \A i, j \in 1..Len(s) : i < j => DeepIn(c, key, s[i]) >= DeepIn(c, key, s[j])

MergeInv ==
  /\ pc = "open" => left = 0
  /\ pc \in {"overlay", "validate", "flag"} => \A key \in Scalars : ScalarFrom(chain, pol[key], key, left)
  /\ pc \in {"overlay", "validate", "flag", "ok"} => \A key \in Lists : ListFrom(chain, pol[key], key, left)
  /\ pc \in {"validate", "flag", "ok"} => left = 0

LEMMA DocumentsAre ==
  ASSUME NEW d \in Documents, NEW key \in Lists
  PROVE  d[key] \in Seq(Items(key))
<1>1. IsList(d[key])
  BY LoadAssumption DEF Lists
<1>2. ToSet(d[key]) \subseteq Items(key)
  BY DEF Items
<1> QED BY <1>1, <1>2 DEF IsList

LEMMA HighestIs ==
  ASSUME NEW n \in Nat, NEW P \in SUBSET (1..n), P # {}
  PROVE  \E i \in P : \A j \in P : j <= i
<1> DEFINE Q == {m \in Nat : n - m \in P}
<1>1. \A i \in P : n - i \in Q
  OBVIOUS
<1>2. PICK m \in Q : \A l \in Q : ~ (<<l, m>> \in OpToRel(<, Nat))
  BY <1>1, NatLessThanWellFounded, WFMin
<1>3. \A l \in Q : ~ (l < m)
  BY <1>2 DEF OpToRel
<1>4. n - m \in P /\ \A j \in P : j <= n - m
  <2>1. ASSUME NEW j \in P PROVE j <= n - m
    <3>1. ~ (n - j < m) /\ j \in Int /\ m \in Int
      BY <1>1, <1>3
    <3> QED BY <3>1
  <2> QED BY <2>1
<1> QED BY <1>4

LEMMA DeepestIs ==
  ASSUME NEW c \in Seq(Entry), NEW key, NEW e, NEW k \in 1..Len(c), Has(c, k, key, e)
  PROVE  /\ DeepIn(c, key, e) \in 1..Len(c) /\ Has(c, DeepIn(c, key, e), key, e)
         /\ \A j \in 1..Len(c) : Has(c, j, key, e) => j <= DeepIn(c, key, e)
<1> DEFINE P == {i \in 1..Len(c) : Has(c, i, key, e)}
<1>1. DOMAIN c = 1..Len(c) /\ Len(c) \in Nat
  OBVIOUS
<1>2. \E i \in P : \A j \in P : j <= i
  <2>1. k \in P /\ P \in SUBSET (1..Len(c))
    OBVIOUS
  <2> HIDE DEF P
  <2> QED BY <1>1, <2>1, HighestIs
<1>3. \E i \in DOMAIN c : Has(c, i, key, e) /\ \A j \in DOMAIN c : Has(c, j, key, e) => j <= i
  BY <1>1, <1>2
<1> QED BY <1>1, <1>3 DEF DeepIn

LEMMA ListLaid ==
  ASSUME NEW c \in Seq(Entry), NEW n \in 1..Len(c), NEW key \in Lists, NEW s, ListFrom(c, s, key, n)
  PROVE  ListFrom(c, UnionDedup(s, c[n].doc[key]), key, n - 1)
<1> DEFINE over == c[n].doc[key]
           r == UnionDedup(s, over)
<1>1. over \in Seq(Items(key))
  <2>1. c[n] \in Entry
    OBVIOUS
  <2>2. c[n].doc \in Documents
    BY <2>1 DEF Entry
  <2> QED BY <2>2, DocumentsAre
<1>2. s \in Seq(Items(key)) /\ Tidy(s) /\ Len(s) \in Nat
  BY DEF ListFrom
<1>3. /\ r \in Seq(Items(key)) /\ Tidy(r)
      /\ ToSet(r) = (ToSet(s) \cup ToSet(over)) \ {<<>>}
      /\ Len(s) <= Len(r)
      /\ \A i \in 1..Len(s) : r[i] = s[i]
  BY <1>1, <1>2, UnionDedupIs
<1>4. \A e : e \in ToSet(s) <=> e # <<>> /\ \E i \in (n + 1)..Len(c) : Has(c, i, key, e)
  BY DEF ListFrom
<1>5. \A e : e \in ToSet(over) <=> Has(c, n, key, e)
  BY DEF Has
<1> HIDE DEF over, r
<1>6. /\ n \in (n - 1 + 1)..Len(c)
      /\ \A i \in (n + 1)..Len(c) : i \in (n - 1 + 1)..Len(c) /\ i \in 1..Len(c)
      /\ \A i \in (n - 1 + 1)..Len(c) : i = n \/ i \in (n + 1)..Len(c)
      /\ n \in 1..Len(c)
  OBVIOUS
<1>7. ASSUME NEW e PROVE e \in ToSet(r) <=> e # <<>> /\ \E i \in (n - 1 + 1)..Len(c) : Has(c, i, key, e)
  <2>1. e \in ToSet(r) <=> e # <<>> /\ (e \in ToSet(s) \/ Has(c, n, key, e))
    BY <1>3, <1>5
  <2> QED BY <1>4, <1>6, <2>1
<1>8. ASSUME NEW i \in 1..Len(r), NEW j \in 1..Len(r), i < j
      PROVE  DeepIn(c, key, r[i]) >= DeepIn(c, key, r[j])
  <2>1. ToSet(r) = {r[k] : k \in 1..Len(r)} /\ ToSet(s) = {s[k] : k \in 1..Len(s)} /\ Len(r) \in Nat
    BY <1>2, <1>3, InTheList
  <2>2. CASE j \in 1..Len(s)
    <3>1. i \in 1..Len(s)
      BY <1>8, <2>2
    <3> QED BY <1>3, <1>8, <2>2, <3>1 DEF ListFrom
  <2>3. CASE j \notin 1..Len(s)
    <3>1. r[j] \notin ToSet(s)
      <4>1. \A k \in 1..Len(s) : k \in 1..Len(r) /\ k < j
        BY <1>2, <1>3, <2>1, <2>3
      <4> QED BY <1>3, <2>1, <4>1 DEF Tidy
    <3>2. r[j] # <<>> /\ Has(c, n, key, r[j])
      BY <1>3, <1>5, <2>1, <3>1
    <3>3. \A k \in (n + 1)..Len(c) : ~ Has(c, k, key, r[j])
      BY <1>4, <3>1, <3>2
    <3>4. DeepIn(c, key, r[j]) = n
      <4>1. /\ DeepIn(c, key, r[j]) \in 1..Len(c) /\ Has(c, DeepIn(c, key, r[j]), key, r[j])
            /\ n <= DeepIn(c, key, r[j])
        BY <1>6, <3>2, DeepestIs
      <4>2. DeepIn(c, key, r[j]) \notin (n + 1)..Len(c)
        BY <3>3, <4>1
      <4> QED BY <4>1, <4>2
    <3>5. \E k \in 1..Len(c) : k >= n /\ Has(c, k, key, r[i])
      <4>1. r[i] \in ToSet(r)
        BY <2>1
      <4>2. PICK k \in (n - 1 + 1)..Len(c) : Has(c, k, key, r[i])
        BY <1>7, <4>1
      <4>3. k \in 1..Len(c) /\ k >= n
        OBVIOUS
      <4> QED BY <4>2, <4>3
    <3>6. PICK k \in 1..Len(c) : k >= n /\ Has(c, k, key, r[i])
      BY <3>5
    <3>7. DeepIn(c, key, r[i]) \in 1..Len(c) /\ k <= DeepIn(c, key, r[i])
      BY <3>6, DeepestIs
    <3> QED BY <3>4, <3>6, <3>7
  <2> QED BY <2>2, <2>3
<1> QED BY <1>3, <1>7, <1>8 DEF ListFrom, r, over

LEMMA ScalarLaid ==
  ASSUME NEW c \in Seq(Entry), NEW n \in 1..Len(c), NEW key, NEW value, ScalarFrom(c, value, key, n)
  PROVE  ScalarFrom(c, OverlayScalar(value, c[n].doc[key]), key, n - 1)
<1>1. /\ n \in (n - 1 + 1)..Len(c) /\ (n - 1 + 1)..(n - 1) = {}
      /\ \A i \in (n - 1 + 1)..Len(c) : i = n \/ i \in (n + 1)..Len(c)
      /\ \A i \in (n + 1)..Len(c) :
           i \in (n - 1 + 1)..Len(c) /\ \A j \in (n - 1 + 1)..(i - 1) : j = n \/ j \in (n + 1)..(i - 1)
  OBVIOUS
<1>2. CASE Sets(c, n, key)
  BY <1>1, <1>2 DEF ScalarFrom, OverlayScalar, Sets
<1>3. CASE ~ Sets(c, n, key)
  <2>1. OverlayScalar(value, c[n].doc[key]) = value
    BY <1>3 DEF OverlayScalar, Sets
  <2>2. CASE value = Default[key] /\ \A i \in (n + 1)..Len(c) : ~ Sets(c, i, key)
    BY <1>1, <1>3, <2>1, <2>2 DEF ScalarFrom
  <2>3. ASSUME NEW i \in (n + 1)..Len(c), value = c[i].doc[key], Sets(c, i, key),
               \A j \in (n + 1)..(i - 1) : ~ Sets(c, j, key)
        PROVE  ScalarFrom(c, value, key, n - 1)
    BY <1>1, <1>3, <2>3 DEF ScalarFrom
  <2> QED BY <2>1, <2>2, <2>3 DEF ScalarFrom
<1> QED BY <1>2, <1>3

(* Nothing is laid over yet. *)
LEMMA NothingLaid ==
  ASSUME NEW c \in Seq(Entry)
  PROVE  /\ \A key \in Scalars : ScalarFrom(c, Default[key], key, Len(c))
         /\ \A key \in Lists : ListFrom(c, Default[key], key, Len(c))
<1>1. (Len(c) + 1)..Len(c) = {}
  OBVIOUS
<1>2. \A key \in Lists : Default[key] = <<>>
  BY DEF Default, Lists
<1>3. \A key : <<>> \in Seq(Items(key)) /\ ToSet(<<>>) = {} /\ 1..Len(<<>>) = {}
  BY DEF ToSet
<1> QED BY <1>1, <1>2, <1>3 DEF ScalarFrom, ListFrom, Tidy


LEMMA MergeInit == Init => MergeInv
BY DEF Init, MergeInv

LEMMA MergeSame ==
  ASSUME MergeInv, UNCHANGED <<chain, left, pol>>, pc' # "open",
         pc' \in {"overlay", "validate", "flag"} => pc \in {"overlay", "validate", "flag"},
         pc' = "ok" => pc \in {"flag", "ok"},
         pc' \in {"validate", "flag"} => pc \in {"validate", "flag"}
  PROVE  MergeInv'
BY DEF MergeInv

(* Two keys at a time. *)
LEMMA MergeKeys ==
  ASSUME NEW p, NEW doc, NEW key
  PROVE  /\ key \in Scalars => Merge(p, doc)[key] = OverlayScalar(p[key], doc[key])
         /\ key \in Lists => Merge(p, doc)[key] = UnionDedup(p[key], doc[key])
BY DEF Merge, Scalars, Lists

LEMMA FieldsKept ==
  ASSUME NetsInv, NEW v
  PROVE  /\ \A key \in Scalars \cup Lists : [pol EXCEPT !.nets = v][key] = pol[key]
         /\ \A key \in Lists : [pol EXCEPT !.mode = v][key] = pol[key]
BY DEF NetsInv, Policies, Scalars, Lists

LEMMA MergeNext ==
  ASSUME ChainInv, NetsInv, MergeInv, [Next]_vars
  PROVE  MergeInv'
<1>0. chain \in Seq(Entry) /\ left \in 0..Len(chain) /\ Len(chain) \in Nat
  BY DEF ChainInv, TypeOK, Entry
<1>1. ASSUME NEW d, Open(d) \/ ResolveLocal(d) \/ ResolveRemote(d) PROVE MergeInv'
  BY <1>1 DEF Open, ResolveLocal, ResolveRemote, Read, MergeInv
<1>2. CASE NoConfig
  <2>1. chain = <<>> /\ pol = Default /\ left = 0 /\ pc' = "flag" /\ UNCHANGED <<chain, left, pol>>
    BY <1>2 DEF NoConfig, ChainInv, NetsInv, MergeInv
  <2>2. Len(chain) = 0
    BY <2>1
  <2>3. /\ \A key \in Scalars : ScalarFrom(chain, pol[key], key, left)
        /\ \A key \in Lists : ListFrom(chain, pol[key], key, left)
    BY <1>0, <2>1, <2>2, NothingLaid
  <2> QED BY <2>1, <2>3 DEF MergeInv
<1>3. CASE Fail
  BY <1>3, MergeSame DEF Fail
<1>4. CASE Parse
  <2>1. CASE pol' = Default /\ left' = Len(chain) /\ pc' = "overlay" /\ UNCHANGED chain
    <3>1. /\ \A key \in Scalars : ScalarFrom(chain, Default[key], key, Len(chain))
          /\ \A key \in Lists : ListFrom(chain, Default[key], key, Len(chain))
      BY <1>0, NothingLaid
    <3> QED BY <2>1, <3>1 DEF MergeInv
  <2>2. CASE pc' = "resolve" /\ UNCHANGED <<chain, left, pol>>
    BY <2>2, MergeSame
  <2> QED BY <1>3, <1>4, <2>1, <2>2 DEF Parse
<1>5. CASE Overlay /\ ~ Fail
  <2>1. /\ pc = "overlay" /\ pol' = Merge(pol, chain[left].doc) /\ left' = left - 1
        /\ pc' = (IF left = 1 THEN "validate" ELSE "overlay") /\ chain' = chain
    BY <1>5 DEF Overlay
  <2>2. left \in 1..Len(chain)
    BY <1>0, <2>1 DEF ChainInv
  <2>3. ASSUME NEW key \in Scalars PROVE ScalarFrom(chain, pol'[key], key, left - 1)
    BY <1>0, <2>1, <2>2, MergeKeys, ScalarLaid DEF MergeInv
  <2>4. ASSUME NEW key \in Lists PROVE ListFrom(chain, pol'[key], key, left - 1)
    BY <1>0, <2>1, <2>2, MergeKeys, ListLaid DEF MergeInv
  <2>5. left = 1 => left - 1 = 0
    OBVIOUS
  <2> QED BY <2>1, <2>3, <2>4, <2>5 DEF MergeInv
<1>6. CASE Validate /\ ~ Fail
  <2>1. pc = "validate" /\ pol' = [pol EXCEPT !.nets = ParseNets(pol.ips)] /\ pc' = "flag"
        /\ UNCHANGED <<chain, left>>
    BY <1>6 DEF Validate
  <2>2. \A key \in Scalars \cup Lists : pol'[key] = pol[key]
    BY <2>1, FieldsKept
  <2> QED BY <2>1, <2>2 DEF MergeInv
<1>7. ASSUME NEW m, ModeFlag(m), ~ Fail PROVE MergeInv'
  <2>1. CASE pc = "flag" /\ pc' = "ok" /\ UNCHANGED <<chain, left, pol>>
    BY <2>1, MergeSame
  <2>2. CASE pc = "flag" /\ pc' = "ok" /\ pol' = [pol EXCEPT !.mode = m] /\ UNCHANGED <<chain, left>>
    <3>1. \A key \in Lists : pol'[key] = pol[key]
      BY <2>2, FieldsKept
    <3> QED BY <2>2, <3>1 DEF MergeInv
  <2> QED BY <1>7, <2>1, <2>2 DEF ModeFlag
<1>8. CASE Done \/ UNCHANGED vars
  BY <1>8 DEF Done, vars, MergeInv
<1> QED BY <1>1, <1>2, <1>3, <1>4, <1>5, <1>6, <1>7, <1>8 DEF Next, ReadFails

LEMMA AlwaysMerged == Spec => [](ChainInv /\ MergeInv)
<1>1. Init => MergeInv
  BY MergeInit
<1>2. ChainInv /\ NetsInv /\ MergeInv /\ [Next]_vars => MergeInv'
  BY MergeNext
<1> QED BY <1>1, <1>2, ChainHolds, NetsKept, PTL DEF Spec

LEMMA NearestIs ==
  ASSUME chain \in Seq(Entry), NEW key, NEW value, ScalarFrom(chain, value, key, 0)
  PROVE  value = Nearest(key)
<1>1. DOMAIN chain = 1..Len(chain) /\ (0 + 1)..Len(chain) = 1..Len(chain) /\ Len(chain) \in Nat
  OBVIOUS
<1>2. Setters(key) = {i \in 1..Len(chain) : Sets(chain, i, key)}
  BY <1>1 DEF Setters, Sets
<1>3. CASE value = Default[key] /\ \A i \in 1..Len(chain) : ~ Sets(chain, i, key)
  BY <1>2, <1>3 DEF Nearest
<1>4. ASSUME NEW i \in 1..Len(chain), value = chain[i].doc[key], Sets(chain, i, key),
             \A j \in (0 + 1)..(i - 1) : ~ Sets(chain, j, key)
      PROVE  value = Nearest(key)
  <2> DEFINE Least(k) == \A j \in Setters(key) : k <= j
  <2>1. i \in Setters(key) /\ Setters(key) # {}
    BY <1>2, <1>4
  <2>2. Least(i)
    <3>1. ASSUME NEW j \in Setters(key) PROVE i <= j
      <4>1. j \in 1..Len(chain) /\ Sets(chain, j, key)
        BY <1>2
      <4>2. j \notin (0 + 1)..(i - 1)
        BY <1>4, <4>1
      <4> QED BY <4>1, <4>2
    <3> QED BY <3>1
  <2>3. ASSUME NEW k \in Setters(key), Least(k) PROVE k = i
    <3>1. k <= i /\ i <= k /\ k \in Int
      BY <1>2, <2>1, <2>2, <2>3
    <3> QED BY <3>1
  <2>0. Nearest(key) = chain[CHOOSE k \in Setters(key) : Least(k)].doc[key]
    BY <2>1 DEF Nearest
  <2> HIDE DEF Least
  <2>4. (CHOOSE k \in Setters(key) : Least(k)) = i
    BY <2>1, <2>2, <2>3, Zenon
  <2> QED BY <1>4, <2>0, <2>4
<1> QED BY <1>1, <1>3, <1>4 DEF ScalarFrom

LEMMA UnionIs ==
  ASSUME chain \in Seq(Entry), NEW key, NEW s, ListFrom(chain, s, key, 0)
  PROVE  IsUnion(s, key)
<1>1. DOMAIN chain = 1..Len(chain) /\ (0 + 1)..Len(chain) = 1..Len(chain)
      /\ DOMAIN s = 1..Len(s)
  BY DEF ListFrom
<1>2. ToSet(s) = UNION {ToSet(chain[i].doc[key]) \ {<<>>} : i \in DOMAIN chain}
  BY <1>1 DEF ListFrom, Has
<1> QED BY <1>1, <1>2 DEF ListFrom, IsUnion, Tidy, Deepest, DeepIn, Has

(* parsePolicy and overlay: the nearest document that sets a scalar decides it,
   and every list is the union, the base's entries first, nothing twice; for
   any documents and any number of them. *)
THEOREM LoadedIsMergeHolds == Spec => []LoadedIsMerge
<1>1. ASSUME ChainInv, MergeInv PROVE LoadedIsMerge
  <2> SUFFICES ASSUME pc = "flag"
               PROVE  /\ pol.mode = Nearest("mode") /\ pol.blockRawIP = Nearest("blockRawIP")
                      /\ IsUnion(pol.endpoints, "endpoints") /\ IsUnion(pol.ips, "ips")
    BY DEF LoadedIsMerge
  <2>1. chain \in Seq(Entry)
    BY <1>1 DEF ChainInv, TypeOK, Entry
  <2>2. /\ \A key \in Scalars : ScalarFrom(chain, pol[key], key, 0)
        /\ \A key \in Lists : ListFrom(chain, pol[key], key, 0)
    BY <1>1 DEF MergeInv
  <2>3. \A key \in Scalars : pol[key] = Nearest(key)
    BY <2>1, <2>2, NearestIs
  <2>4. \A key \in Lists : IsUnion(pol[key], key)
    BY <2>1, <2>2, UnionIs
  <2>5. "mode" \in Scalars /\ "blockRawIP" \in Scalars /\ "endpoints" \in Lists /\ "ips" \in Lists
    BY DEF Scalars, Lists
  <2> QED BY <2>3, <2>4, <2>5
<1> QED BY <1>1, AlwaysMerged, PTL


-----------------------------------------------------------------------------
(* Names, token by token. *)
Low(t) == IF t \in DOMAIN LowerOf THEN LowerOf[t] ELSE t

LEMMA LowKeeps ==
  ASSUME NEW t
  PROVE  (Low(t) = "." <=> t = ".") /\ (Low(t) = "*" <=> t = "*")
BY LowerAssumption DEF Low

LEMMA LowerIs ==
  ASSUME NEW S, NEW s \in Seq(S)
  PROVE  /\ Lower(s) \in Seq({Low(t) : t \in S}) /\ Len(Lower(s)) = Len(s)
         /\ \A i \in 1..Len(s) : Lower(s)[i] = Low(s[i])
<1> DEFINE l == [i \in 1..Len(s) |-> Low(s[i])]
<1>1. Lower(s) = l
  BY DEF Lower, Low
<1>2. Len(s) \in Nat /\ \A i \in 1..Len(s) : l[i] \in {Low(t) : t \in S}
  OBVIOUS
<1>3. l \in Seq({Low(t) : t \in S}) /\ Len(l) = Len(s)
  BY <1>2
<1> QED BY <1>1, <1>3

(* Sequences that agree in length and token by token. *)
LEMMA SameSeqs ==
  ASSUME NEW S, NEW T, NEW s \in Seq(S), NEW t \in Seq(T), Len(s) = Len(t),
         \A i \in 1..Len(s) : s[i] = t[i]
  PROVE  s = t
<1>1. s = [i \in 1..Len(s) |-> s[i]] /\ t = [i \in 1..Len(t) |-> t[i]]
  OBVIOUS
<1> QED BY <1>1

LEMMA TailIs ==
  ASSUME NEW S, NEW s \in Seq(S), NEW k \in 0..Len(s)
  PROVE  LET q == SubSeq(s, k + 1, Len(s))
         IN  /\ q \in Seq(S) /\ Len(q) = Len(s) - k
             /\ \A i \in 1..(Len(s) - k) : q[i] = s[k + i]
<1> DEFINE n == Len(s)
           a == k + 1
<1>1. n \in Nat /\ k \in Nat /\ k <= n /\ a \in Int /\ a >= 1 /\ n \in Int
  OBVIOUS
<1>2. \A i \in a..n : s[i] \in S
  BY <1>1
<1> HIDE DEF n, a
<1>3. /\ SubSeq(s, a, n) \in Seq(S)
      /\ Len(SubSeq(s, a, n)) = IF a <= n THEN n - a + 1 ELSE 0
      /\ \A i \in 1..(n - a + 1) : SubSeq(s, a, n)[i] = s[a + i - 1]
  BY <1>1, <1>2, SubSeqProperties
<1>4. a = k + 1
  BY DEF a
<1>5. n - a + 1 = n - k /\ (IF a <= n THEN n - a + 1 ELSE 0) = n - k /\ \A i \in 1..(n - k) : a + i - 1 = k + i
  BY <1>1, <1>4
<1>6. \A i \in 1..(n - k) : SubSeq(s, a, n)[i] = s[k + i]
  BY <1>3, <1>5
<1> QED BY <1>3, <1>5, <1>6 DEF n, a

LEMMA FrontIs ==
  ASSUME NEW S, NEW s \in Seq(S), NEW k \in 0..Len(s)
  PROVE  LET q == SubSeq(s, 1, k)
         IN  /\ q \in Seq(S) /\ Len(q) = k
             /\ \A i \in 1..k : q[i] = s[i]
<1>1. Len(s) \in Nat /\ k \in Int /\ 1 \in Int /\ \A i \in 1..k : s[i] \in S
  OBVIOUS
<1>2. /\ SubSeq(s, 1, k) \in Seq(S)
      /\ Len(SubSeq(s, 1, k)) = IF 1 <= k THEN k - 1 + 1 ELSE 0
      /\ \A i \in 1..(k - 1 + 1) : SubSeq(s, 1, k)[i] = s[1 + i - 1]
  BY <1>1, SubSeqProperties
<1>3. k - 1 + 1 = k /\ \A i \in 1..k : 1 + i - 1 = i
  OBVIOUS
<1> QED BY <1>2, <1>3

LEMMA JoinIs ==
  ASSUME NEW S, NEW s \in Seq(S), NEW t \in Seq(S)
  PROVE  /\ s \o t \in Seq(S) /\ Len(s \o t) = Len(s) + Len(t)
         /\ \A i \in 1..Len(s) : (s \o t)[i] = s[i]
         /\ \A i \in 1..Len(t) : (s \o t)[Len(s) + i] = t[i]
OBVIOUS

LEMMA PrefixIs ==
  ASSUME NEW S, NEW s \in Seq(S), NEW T, NEW p \in Seq(T)
  PROVE  IsPrefix(p, s) <=> Len(p) <= Len(s) /\ \A i \in 1..Len(p) : p[i] = s[i]
<1> SUFFICES ASSUME Len(p) <= Len(s)
             PROVE  SubSeq(p, 1, Len(p)) = SubSeq(s, 1, Len(p)) <=> \A i \in 1..Len(p) : p[i] = s[i]
  BY DEF IsPrefix
<1>1. Len(p) \in 0..Len(p) /\ Len(p) \in 0..Len(s)
  OBVIOUS
<1> DEFINE n == Len(p)
           a == SubSeq(p, 1, n)
           b == SubSeq(s, 1, n)
<1>2. /\ a \in Seq(T) /\ Len(a) = n /\ \A i \in 1..n : a[i] = p[i]
      /\ b \in Seq(S) /\ Len(b) = n /\ \A i \in 1..n : b[i] = s[i]
  BY <1>1, FrontIs
<1> HIDE DEF n, a, b
<1>3. ASSUME \A i \in 1..n : p[i] = s[i] PROVE a = b
  BY <1>2, <1>3, SameSeqs
<1> QED BY <1>2, <1>3 DEF n, a, b

LEMMA ReverseIs ==
  ASSUME NEW S, NEW s \in Seq(S)
  PROVE  /\ Reverse(s) \in Seq(S) /\ Len(Reverse(s)) = Len(s)
         /\ \A i \in 1..Len(s) : Reverse(s)[i] = s[(Len(s) - i) + 1]
<1> DEFINE n == Len(s)
           r == [i \in 1..n |-> s[(n - i) + 1]]
<1>1. n \in Nat /\ \A i \in 1..n : (n - i) + 1 \in 1..n
  OBVIOUS
<1>2. \A i \in 1..n : s[i] \in S
  OBVIOUS
<1> HIDE DEF n
<1>3. r \in Seq(S) /\ Len(r) = n
  BY <1>1, <1>2
<1>4. Reverse(s) = r
  BY DEF Reverse, n
<1> QED BY <1>3, <1>4 DEF n

LEMMA SuffixIs ==
  ASSUME NEW S, NEW s \in Seq(S), NEW T, NEW p \in Seq(T)
  PROVE  HasSuffix(s, p) <=>
           Len(p) <= Len(s) /\ \A i \in 1..Len(p) : p[i] = s[(Len(s) - Len(p)) + i]
<1> DEFINE n == Len(s)
           m == Len(p)
           rs == Reverse(s)
           rp == Reverse(p)
<1>1. /\ rs \in Seq(S) /\ Len(rs) = n /\ \A i \in 1..n : rs[i] = s[(n - i) + 1]
      /\ rp \in Seq(T) /\ Len(rp) = m /\ \A i \in 1..m : rp[i] = p[(m - i) + 1]
  BY ReverseIs
<1>2. n \in Nat /\ m \in Nat
  OBVIOUS
<1> HIDE DEF n, m, rs, rp
<1>3. HasSuffix(s, p) <=> m <= n /\ \A i \in 1..m : rp[i] = rs[i]
  <2>1. IsPrefix(rp, rs) <=> Len(rp) <= Len(rs) /\ \A i \in 1..Len(rp) : rp[i] = rs[i]
    <3>1. rs \in Seq(S) /\ rp \in Seq(T)
      BY <1>1
    <3> QED BY <3>1, PrefixIs, Zenon
  <2>2. HasSuffix(s, p) <=> IsPrefix(rp, rs)
    BY DEF HasSuffix, IsSuffix, rs, rp
  <2> QED BY <1>1, <2>1, <2>2
<1>4. ASSUME m <= n, \A i \in 1..m : rp[i] = rs[i], NEW i \in 1..m PROVE p[i] = s[(n - m) + i]
  <2> DEFINE k == (m - i) + 1
  <2> m \in Nat /\ n \in Nat /\ i \in 1..m /\ m <= n
    BY <1>2, <1>4
  <2>1. k \in 1..m /\ k \in 1..n /\ (m - k) + 1 = i /\ (n - k) + 1 = (n - m) + i
    BY ONLY m \in Nat, n \in Nat, i \in 1..m, m <= n
  <2> HIDE DEF k
  <2>2. rp[k] = rs[k]
    BY <1>4, <2>1
  <2>3. rp[k] = p[(m - k) + 1] /\ rs[k] = s[(n - k) + 1]
    BY <1>1, <2>1
  <2> QED BY <2>1, <2>2, <2>3
<1>5. ASSUME m <= n, \A i \in 1..m : p[i] = s[(n - m) + i], NEW i \in 1..m PROVE rp[i] = rs[i]
  <2> DEFINE k == (m - i) + 1
  <2> m \in Nat /\ n \in Nat /\ i \in 1..m /\ m <= n
    BY <1>2, <1>5
  <2>1. k \in 1..m /\ i \in 1..n /\ (n - m) + k = (n - i) + 1
    BY ONLY m \in Nat, n \in Nat, i \in 1..m, m <= n
  <2> HIDE DEF k
  <2>2. p[k] = s[(n - m) + k]
    BY <1>5, <2>1
  <2>3. rp[i] = p[k] /\ rs[i] = s[(n - i) + 1]
    BY <1>1, <2>1 DEF k
  <2> QED BY <2>1, <2>2, <2>3
<1>6. HasSuffix(s, p) <=> m <= n /\ \A i \in 1..m : p[i] = s[(n - m) + i]
  BY <1>3, <1>4, <1>5
<1> QED BY <1>6 DEF n, m


Wildcard == <<"*", ".">>

LEMMA WildIs ==
  ASSUME NEW S, NEW s \in Seq(S)
  PROVE  HasPrefix(s, Wildcard) <=> Len(s) >= 2 /\ s[1] = "*" /\ s[2] = "."
<1>1. Wildcard \in Seq({"*", "."}) /\ Len(Wildcard) = 2 /\ Wildcard[1] = "*" /\ Wildcard[2] = "."
  BY DEF Wildcard
<1>2. Len(s) \in Nat /\ 1..2 = {1, 2}
  OBVIOUS
<1> HIDE DEF Wildcard
<1>3. HasPrefix(s, Wildcard) <=> Len(Wildcard) <= Len(s) /\ \A i \in 1..Len(Wildcard) : Wildcard[i] = s[i]
  BY <1>1, PrefixIs DEF HasPrefix
<1> QED BY <1>1, <1>2, <1>3

(* MatchDomain of what AllowsDomain lowers, and the reference, on any name and
   any pattern. *)
LEMMA MatchIsListed ==
  ASSUME NEW S, NEW t \in Seq(S), NEW T, NEW p \in Seq(T)
  PROVE  MatchDomain(Lower(p), Lower(t)) <=> Listed(t, p)
<1> DEFINE lp == Lower(p)
           lt == Lower(t)
           LS == {Low(x) : x \in S}
           LT == {Low(x) : x \in T}
<1>1. /\ lp \in Seq(LT) /\ Len(lp) = Len(p) /\ \A i \in 1..Len(p) : lp[i] = Low(p[i])
      /\ lt \in Seq(LS) /\ Len(lt) = Len(t) /\ \A i \in 1..Len(t) : lt[i] = Low(t[i])
      /\ Len(p) \in Nat /\ Len(t) \in Nat
  <2>1. lp \in Seq(LT) /\ Len(lp) = Len(p) /\ \A i \in 1..Len(p) : lp[i] = Low(p[i])
    BY LowerIs, Zenon
  <2>2. lt \in Seq(LS) /\ Len(lt) = Len(t) /\ \A i \in 1..Len(t) : lt[i] = Low(t[i])
    BY LowerIs, Zenon
  <2>3. Len(p) \in Nat /\ Len(t) \in Nat
    OBVIOUS
  <2> QED BY <2>1, <2>2, <2>3
<1> HIDE DEF lp, lt, LS, LT
<1>2. HasPrefix(lp, Wildcard) <=> HasPrefix(p, Wildcard)
  <2>1. HasPrefix(lp, Wildcard) <=> Len(lp) >= 2 /\ lp[1] = "*" /\ lp[2] = "."
    BY <1>1, WildIs
  <2>2. HasPrefix(p, Wildcard) <=> Len(p) >= 2 /\ p[1] = "*" /\ p[2] = "."
    BY WildIs
  <2>3. Len(p) >= 2 => lp[1] = Low(p[1]) /\ lp[2] = Low(p[2])
    BY <1>1
  <2> QED BY <1>1, <2>1, <2>2, <2>3, LowKeeps
<1>3. CASE ~ HasPrefix(p, Wildcard)
  <2>1. MatchDomain(lp, lt) <=> lp = lt
    BY <1>2, <1>3 DEF MatchDomain, Wildcard
  <2>2. Listed(t, p) <=> lt = lp
    BY <1>3 DEF Listed, Wildcard, SameName, lp, lt
  <2> QED BY <2>1, <2>2 DEF lp, lt
<1>4. CASE HasPrefix(p, Wildcard)
  <2> DEFINE q == SubSeq(p, 3, Len(p))
             lq == SubSeq(lp, 3, Len(lp))
             dot == <<".">>
             tail == dot \o lq
             n == Len(t)
             m == Len(p) - 2
  <2>1. Len(p) >= 2 /\ 2 \in 0..Len(p) /\ 2 \in 0..Len(lp) /\ m \in Nat /\ n \in Nat
    BY <1>1, <1>4, WildIs
  <2>2. /\ q \in Seq(T) /\ Len(q) = m /\ \A i \in 1..m : q[i] = p[2 + i]
        /\ lq \in Seq(LT) /\ Len(lq) = m /\ \A i \in 1..m : lq[i] = lp[2 + i]
    BY <1>1, <2>1, TailIs
  <2>3. /\ CutPrefix(p, Wildcard) = q /\ CutPrefix(lp, Wildcard) = lq
    BY DEF CutPrefix, Wildcard
  <2> HIDE DEF q, lq
  <2>4. \A i \in 1..m : lq[i] = Low(q[i])
    <3>1. \A i \in 1..m : 2 + i \in 1..Len(p)
      BY <1>1, <2>1
    <3> QED BY <1>1, <2>2, <3>1
  <2>5. /\ tail \in Seq(LT \cup {"."}) /\ Len(tail) = m + 1 /\ tail[1] = "."
        /\ \A i \in 1..m : tail[1 + i] = lq[i]
    <3>1. dot \in Seq(LT \cup {"."}) /\ Len(dot) = 1 /\ dot[1] = "."
      OBVIOUS
    <3>2. lq \in Seq(LT \cup {"."})
      BY <2>2
    <3> HIDE DEF dot
    <3>3. /\ tail \in Seq(LT \cup {"."}) /\ Len(tail) = Len(dot) + Len(lq)
          /\ \A i \in 1..Len(dot) : tail[i] = dot[i]
          /\ \A i \in 1..Len(lq) : tail[Len(dot) + i] = lq[i]
      <4> DEFINE U == LT \cup {"."}
      <4>1. dot \in Seq(U) /\ lq \in Seq(U)
        BY <3>1, <3>2
      <4> HIDE DEF U
      <4>2. /\ dot \o lq \in Seq(U) /\ Len(dot \o lq) = Len(dot) + Len(lq)
            /\ \A i \in 1..Len(dot) : (dot \o lq)[i] = dot[i]
            /\ \A i \in 1..Len(lq) : (dot \o lq)[Len(dot) + i] = lq[i]
        BY ONLY <4>1, JoinIs, SMT
      <4> QED BY <4>2 DEF U
    <3> HIDE DEF tail
    <3>4. 1 \in 1..Len(dot) /\ Len(lq) = m /\ 1 + m = m + 1
      BY <2>1, <2>2, <3>1
    <3> QED BY <3>1, <3>3, <3>4
  <2>6. MatchDomain(lp, lt) <=> HasSuffix(lt, tail)
    BY <1>2, <1>4, <2>3 DEF MatchDomain, Wildcard
  <2> HIDE DEF tail, m, n
  <2>7. HasSuffix(lt, tail) <=> m + 1 <= n /\ \A i \in 1..(m + 1) : tail[i] = lt[(n - (m + 1)) + i]
    <3>1. lt \in Seq(LS) /\ tail \in Seq(LT \cup {"."}) /\ Len(lt) = n /\ Len(tail) = m + 1
      BY <1>1, <2>5 DEF n
    <3>2. HasSuffix(lt, tail) <=>
            Len(tail) <= Len(lt) /\ \A i \in 1..Len(tail) : tail[i] = lt[(Len(lt) - Len(tail)) + i]
      <4> DEFINE U == LT \cup {"."}
      <4>1. tail \in Seq(U)
        BY <3>1
      <4> HIDE DEF U
      <4>2. lt \in Seq(LS)
        BY <3>1
      <4> QED BY ONLY <4>1, <4>2, SuffixIs, SMT
    <3> QED BY <3>1, <3>2
  (* The only place where the dot can be. *)
  <2> DEFINE Fits == m + 1 <= n /\ t[n - m] = "." /\ \A i \in 1..m : Low(q[i]) = Low(t[(n - m) + i])
  <2>8. HasSuffix(lt, tail) <=> Fits
    <3>1. ASSUME m + 1 <= n
          PROVE  /\ lt[(n - (m + 1)) + 1] = Low(t[n - m])
                 /\ \A i \in 1..m : lt[(n - (m + 1)) + (1 + i)] = Low(t[(n - m) + i])
      <4>1. n - m \in 1..n /\ (n - (m + 1)) + 1 = n - m
        BY <2>1, <3>1
      <4>2. \A i \in 1..m : (n - m) + i \in 1..n /\ (n - (m + 1)) + (1 + i) = (n - m) + i
        BY <2>1, <3>1
      <4> QED BY <1>1, <4>1, <4>2 DEF n
    <3>2. 1 \in 1..(m + 1) /\ (\A i \in 1..m : 1 + i \in 1..(m + 1))
          /\ \A i \in 1..(m + 1) : i = 1 \/ (i - 1 \in 1..m /\ i = 1 + (i - 1))
      BY <2>1
    <3>3. ASSUME HasSuffix(lt, tail) PROVE Fits
      <4>1. m + 1 <= n /\ \A i \in 1..(m + 1) : tail[i] = lt[(n - (m + 1)) + i]
        BY <2>7, <3>3
      <4>2. tail[1] = Low(t[n - m])
        BY <3>1, <3>2, <4>1
      <4>3. t[n - m] = "."
        BY <2>5, <4>2, LowKeeps
      <4>4. ASSUME NEW i \in 1..m PROVE Low(q[i]) = Low(t[(n - m) + i])
        <5>1. tail[1 + i] = lt[(n - (m + 1)) + (1 + i)]
          BY <3>2, <4>1
        <5> QED BY <2>4, <2>5, <3>1, <4>1, <5>1
      <4> QED BY <4>1, <4>3, <4>4
    <3>4. ASSUME Fits PROVE HasSuffix(lt, tail)
      <4>1. ASSUME NEW i \in 1..(m + 1) PROVE tail[i] = lt[(n - (m + 1)) + i]
        <5>1. CASE i = 1
          BY <2>5, <3>1, <3>4, <5>1, LowKeeps
        <5>2. CASE i # 1
          <6>1. i - 1 \in 1..m /\ i = 1 + (i - 1)
            BY <3>2, <5>2
          <6>2. tail[1 + (i - 1)] = Low(q[i - 1])
            BY <2>4, <2>5, <6>1
          <6>3. lt[(n - (m + 1)) + (1 + (i - 1))] = Low(t[(n - m) + (i - 1)])
            BY <3>1, <3>4, <6>1
          <6> QED BY <3>4, <6>1, <6>2, <6>3
        <5> QED BY <5>1, <5>2
      <4> QED BY <2>7, <3>4, <4>1
    <3> QED BY <3>3, <3>4
  <2>9. Listed(t, p) <=> \E i \in 1..n : t[i] = "." /\ Lower(SubSeq(t, i + 1, n)) = Lower(q)
    <3>1. DOMAIN t = 1..n
      BY DEF n
    <3> QED BY <1>4, <2>3, <3>1 DEF Listed, Subdomain, SameName, Wildcard, n
  <2>10. /\ Lower(q) \in Seq(LT) /\ Len(Lower(q)) = m /\ \A i \in 1..m : Lower(q)[i] = Low(q[i])
    BY <2>2, LowerIs DEF LT
  <2>11. ASSUME NEW i \in 1..n
         PROVE  LET r == SubSeq(t, i + 1, n)
                IN  /\ Lower(r) \in Seq(LS) /\ Len(Lower(r)) = n - i
                    /\ \A j \in 1..(n - i) : Lower(r)[j] = Low(t[i + j])
    <3> DEFINE r == SubSeq(t, i + 1, n)
    <3>1. i \in 0..Len(t)
      BY <2>1 DEF n
    <3>2. r \in Seq(S) /\ Len(r) = n - i /\ \A j \in 1..(n - i) : r[j] = t[i + j]
      BY <3>1, TailIs DEF n
    <3> HIDE DEF r
    <3>3. /\ Lower(r) \in Seq(LS) /\ Len(Lower(r)) = Len(r) /\ \A j \in 1..Len(r) : Lower(r)[j] = Low(r[j])
      BY <3>2, LowerIs DEF LS
    <3> QED BY <3>2, <3>3 DEF r
  <2>12. ASSUME Fits PROVE Listed(t, p)
    <3>1. n - m \in 1..n /\ n - (n - m) = m
      BY <2>1, <2>12
    <3> DEFINE lr == Lower(SubSeq(t, (n - m) + 1, n))
    <3>2. lr \in Seq(LS) /\ Len(lr) = m /\ \A j \in 1..m : lr[j] = Low(t[(n - m) + j])
      BY <2>11, <3>1
    <3> HIDE DEF lr
    <3>3. lr = Lower(q)
      BY <2>10, <2>12, <3>2, SameSeqs
    <3> QED BY <2>9, <2>12, <3>1, <3>3 DEF lr
  <2>13. ASSUME NEW i \in 1..n, t[i] = ".", Lower(SubSeq(t, i + 1, n)) = Lower(q) PROVE Fits
    <3>1. n - i = m
      BY <2>10, <2>11, <2>13
    <3>2. i = n - m /\ m + 1 <= n
      BY <2>1, <3>1
    <3>3. \A j \in 1..m : Low(q[j]) = Low(t[i + j])
      BY <2>10, <2>11, <2>13, <3>1
    <3> QED BY <2>13, <3>2, <3>3
  <2> HIDE DEF Fits
  <2>14. Listed(t, p) <=> Fits
    BY <2>9, <2>12, <2>13
  <2> QED BY <2>6, <2>8, <2>14 DEF lp, lt
<1> QED BY <1>3, <1>4

LEMMA TrimmedIs ==
  ASSUME NEW S, NEW s \in Seq(S)
  PROVE  TrimSuffix(s, <<".">>) \in Seq(S)
<1>1. Len(<<".">>) = 1 /\ <<".">> \in Seq({"."})
  OBVIOUS
<1>2. HasSuffix(s, <<".">>) => Len(s) >= 1
  BY <1>1, SuffixIs
<1>3. Len(s) >= 1 => SubSeq(s, 1, Len(s) - 1) \in Seq(S)
  <2>1. Len(s) >= 1 => Len(s) - 1 \in 0..Len(s)
    OBVIOUS
  <2> QED BY <2>1, FrontIs
<1> QED BY <1>1, <1>2, <1>3 DEF TrimSuffix

(* matchDomain and AllowsDomain: the loaded policy allows exactly the names that
   some document of its chain lists, with their case and a final dot ignored. *)
THEOREM NamesOfTheChainHolds == Spec => []NamesOfTheChain
<1>1. ASSUME ChainInv, MergeInv PROVE NamesOfTheChain
  <2> SUFFICES ASSUME pc = "ok", NEW d \in Names
               PROVE  AllowsDomain(pol.endpoints, d) <=>
                        \E i \in DOMAIN chain : \E pattern \in ToSet(chain[i].doc.endpoints) :
                          pattern # <<>> /\ Listed(TrimSuffix(d, <<".">>), pattern)
    BY DEF NamesOfTheChain
  <2> DEFINE t == TrimSuffix(d, <<".">>)
  <2>1. chain \in Seq(Entry) /\ DOMAIN chain = 1..Len(chain) /\ (0 + 1)..Len(chain) = 1..Len(chain)
    BY <1>1 DEF ChainInv, TypeOK, Entry
  <2>2. t \in Seq(ToSet(d))
    BY LoadAssumption, TrimmedIs DEF IsList
  <2> HIDE DEF t
  <2>3. ListFrom(chain, pol.endpoints, "endpoints", 0)
    BY <1>1 DEF MergeInv, Lists
  <2>4. \A e : e \in ToSet(pol.endpoints) <=>
                 e # <<>> /\ \E i \in 1..Len(chain) : e \in ToSet(chain[i].doc.endpoints)
    BY <2>1, <2>3 DEF ListFrom, Has
  <2>5. ASSUME NEW i \in 1..Len(chain), NEW e \in ToSet(chain[i].doc.endpoints)
        PROVE  MatchDomain(Lower(e), Lower(t)) <=> Listed(t, e)
    <3>1. chain[i] \in Entry
      BY <2>1
    <3>2. chain[i].doc \in Documents
      BY <3>1 DEF Entry
    <3>3. e \in Seq(ToSet(e))
      BY <3>2, LoadAssumption DEF IsList
    <3> QED BY <2>2, <3>3, MatchIsListed
  <2>6. AllowsDomain(pol.endpoints, d) <=>
          \E e \in ToSet(pol.endpoints) : MatchDomain(Lower(e), Lower(t))
    BY DEF AllowsDomain, t
  <2>7. (\E e \in ToSet(pol.endpoints) : MatchDomain(Lower(e), Lower(t))) <=>
          \E i \in 1..Len(chain) : \E e \in ToSet(chain[i].doc.endpoints) : e # <<>> /\ Listed(t, e)
    BY <2>4, <2>5
  <2> QED BY <2>1, <2>6, <2>7 DEF t
<1> QED BY <1>1, AlwaysMerged, PTL
=============================================================================
