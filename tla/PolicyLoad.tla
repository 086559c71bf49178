----------------------------- MODULE PolicyLoad ------------------------------
(***************************************************************************)
(* Loading a policy: LoadWithResolver opens the file, parsePolicy follows  *)
(* `extends` from document to document, lays the documents over the        *)
(* defaults from the outermost base inwards, and Validate accepts or       *)
(* rejects the result; `egret run --mode` then overrides one field.        *)
(*                                                                         *)
(* Any document can be behind any reference.  A path is the sequence of    *)
(* its components with all symlinks resolved.  Of the scalars (version,    *)
(* mode, block-raw-ip, report) two are kept, of the lists (endpoints, IPs, *)
(* protected paths, disallowed processes) two: the others merge alike.     *)
(***************************************************************************)
EXTENDS PolicyRules, FiniteSets

CONSTANTS
  Documents,     \* what a policy file can contain
  Components,    \* names of directories and files
  Root, File,    \* directory and name of the policy given with --config
  MaxDepth,      \* maxExtendsDepth
  ModeFlags,     \* values of --mode, Unset among them
  Names,         \* domain names the merged allowlist is asked for
  Unset          \* a key the document does not have

Modes == {"audit", "block"}

(* A reference: the path as it reads and the file it leads to. *)
NoRef == [kind |-> "none", reads |-> <<>>, real |-> <<>>]

Path == Seq(Components)

ASSUME LoadAssumption ==
  /\ MaxDepth \in Nat
  /\ Unset \notin BOOLEAN
  /\ Root \in Path /\ File \in Components
  /\ \A d \in Documents : /\ d.extends.kind \in {"none", "absolute", "local", "remote"}
                          /\ d.extends.real \in Path
                          /\ IsList(d.endpoints) /\ IsList(d.ips)
                          /\ \A e \in ToSet(d.endpoints) : IsList(e)
  /\ \A name \in Names : IsList(name)

VARIABLES
  pc,      \* "open", "parse", "resolve", "overlay", "validate", "flag", "ok", "error"
  chain,   \* the documents read, each the base of the one before it
  left,    \* how many of them are not laid over the result yet
  pol      \* the policy under construction

vars == <<pc, chain, left, pol>>

Default == [mode |-> "audit", blockRawIP |-> TRUE, endpoints |-> <<>>, ips |-> <<>>, nets |-> <<>>]

Top == Last(chain)

Init ==
  /\ pc = "open"
  /\ chain = <<>>
  /\ left = 0
  /\ pol = Default

Fail == pc' = "error" /\ UNCHANGED <<chain, left, pol>>

(* Document d was read from the file at real, or fetched; nested references
   are relative to dir. *)
Read(d, dir, file) ==
  /\ chain' = Append(chain, [doc |-> d, dir |-> dir, file |-> file])
  /\ pc' = "parse"
  /\ UNCHANGED <<left, pol>>

NotAFile == <<>>

Open(d) == pc = "open" /\ Read(d, Root, Append(Root, File))

(* loadPolicy without --config: the defaults, and nothing is read. *)
NoConfig == pc = "open" /\ pc' = "flag" /\ UNCHANGED <<chain, left, pol>>

TooDeep(depth) == depth > MaxDepth

(* The depth, and the head of the last document read. *)
Parse ==
  /\ pc = "parse"
  /\ IF TooDeep(Len(chain) - 1) \/ ~ Top.doc.isYaml THEN Fail
     ELSE IF Top.doc.extends.kind = "none"
     THEN /\ pol' = Default
          /\ left' = Len(chain)
          /\ pc' = "overlay"
          /\ UNCHANGED chain
     ELSE pc' = "resolve" /\ UNCHANGED <<chain, left, pol>>

(* Mutant: the path is checked as it reads, before symlinks. *)
ConfinedAsRead(ref, dir) == dir # <<>> /\ IsPrefix(dir, ref.reads)

(* abs == root or below root + "/"; nothing is below "/" + "/". *)
Confined(ref, dir) == dir # <<>> /\ IsPrefix(dir, ref.real)

(* resolveRef of a path: the base of the documents below it is where it is. *)
ResolveLocal(d) ==
  /\ pc = "resolve" /\ Top.doc.extends.kind = "local"
  /\ Confined(Top.doc.extends, Top.dir)
  /\ Top.doc.extends.real # Top.dir  \* reading a directory fails
  /\ Read(d, Front(Top.doc.extends.real), Top.doc.extends.real)

(* resolveRef of a URL: a path in the fetched document is relative to the
   directory of the last local one. *)
ResolveRemote(d) ==
  /\ pc = "resolve" /\ Top.doc.extends.kind = "remote"
  /\ Read(d, Top.dir, NotAFile)

(* An absolute or escaping path, no resolver, or the file cannot be read. *)
ReadFails == pc \in {"open", "resolve"} /\ Fail

(* The decoder leaves a field alone whose key the document does not have. *)
OverlayScalar(base, value) == IF value = Unset THEN base ELSE value

Merge(base, doc) ==
  [mode       |-> OverlayScalar(base.mode, doc.mode),
   blockRawIP |-> OverlayScalar(base.blockRawIP, doc.blockRawIP),
   endpoints  |-> UnionDedup(base.endpoints, doc.endpoints),
   ips        |-> UnionDedup(base.ips, doc.ips),
   nets       |-> <<>>]

(* The strict decode of the innermost document not laid over yet. *)
Overlay ==
  /\ pc = "overlay"
  /\ IF ~ chain[left].doc.knownKeys THEN Fail
     ELSE /\ pol' = Merge(pol, chain[left].doc)
          /\ left' = left - 1
          /\ pc' = IF left = 1 THEN "validate" ELSE "overlay"
          /\ UNCHANGED chain

Valid(p) ==
  /\ p.mode \in Modes
  /\ \A e \in ToSet(p.endpoints) : ValidEndpoint(e)
  /\ ValidNets(p.ips)

Validate ==
  /\ pc = "validate"
  /\ IF ~ Valid(pol) THEN Fail
     ELSE /\ pol' = [pol EXCEPT !.nets = ParseNets(pol.ips)]
          /\ pc' = "flag"
          /\ UNCHANGED <<chain, left>>

(* newRunCmd: --mode replaces the mode and the policy is validated again. *)
ModeFlag(m) ==
  /\ pc = "flag"
  /\ IF m = Unset THEN pc' = "ok" /\ UNCHANGED <<chain, left, pol>>
     ELSE LET p == [pol EXCEPT !.mode = m]
          IN  IF Valid(p) THEN pc' = "ok" /\ pol' = p /\ UNCHANGED <<chain, left>> ELSE Fail

Done == pc \in {"ok", "error"} /\ UNCHANGED vars

Next ==
  \/ \E d \in Documents : Open(d) \/ ResolveLocal(d) \/ ResolveRemote(d)
  \/ NoConfig \/ ReadFails \/ Parse \/ Overlay \/ Validate
  \/ \E m \in ModeFlags : ModeFlag(m)
  \/ Done

Spec == Init /\ [][Next]_vars

-----------------------------------------------------------------------------
TypeOK ==
  /\ pc \in {"open", "parse", "resolve", "overlay", "validate", "flag", "ok", "error"}
  /\ chain \in Seq([doc : Documents, dir : Path, file : Path])
  /\ left \in 0..Len(chain)

(* resolveRef: "a local `extends` is confined to the directory of the policy
   that declared it", and so, through any chain of documents, remote ones in
   between too, every file that is read lies under the directory of the policy
   the operator named. *)
ReadsConfined ==
  \A i \in DOMAIN chain : chain[i].file # NotAFile => IsPrefix(Root, chain[i].file)

(* "nested too deeply": a cycle of references ends the load; at most MaxDepth
   bases are merged and at most one more document is read. *)
DepthBounded ==
  /\ Len(chain) <= MaxDepth + 2
  /\ pc \in {"overlay", "validate", "flag", "ok"} => Len(chain) <= MaxDepth + 1

(* The documents that set a key, and the one of them nearest to the operator. *)
Setters(key) == {i \in DOMAIN chain : chain[i].doc[key] # Unset}
Nearest(key) ==
  IF Setters(key) = {} THEN Default[key]
  ELSE chain[CHOOSE i \in Setters(key) : \A j \in Setters(key) : i <= j].doc[key]

(* merged is the union of the documents' lists, without repetition, and an
   entry that a base has comes before one that only documents above it have. *)
Deepest(key, e) == CHOOSE i \in DOMAIN chain :
                     /\ e \in ToSet(chain[i].doc[key])
                     /\ \A j \in DOMAIN chain : e \in ToSet(chain[j].doc[key]) => j <= i
IsUnion(merged, key) ==
  /\ ToSet(merged) = UNION {ToSet(chain[i].doc[key]) \ {<<>>} : i \in DOMAIN chain}
  /\ \A i, j \in DOMAIN merged :
       i < j => merged[i] # merged[j] /\ Deepest(key, merged[i]) >= Deepest(key, merged[j])

(* parsePolicy: "scalars override the base ... while list fields are UNIONed
   with the base", through any number of bases. *)
LoadedIsMerge ==
  pc = "flag" =>
    /\ pol.mode = Nearest("mode") /\ pol.blockRawIP = Nearest("blockRawIP")
    /\ IsUnion(pol.endpoints, "endpoints") /\ IsUnion(pol.ips, "ips")

(* Reference for "*.example.com matches any single-or-multi label subdomain of
   example.com but NOT example.com itself", with or without the final dot. *)
SameName(s, t) == Lower(s) = Lower(t)
Subdomain(name, of) ==
  \E i \in DOMAIN name : name[i] = "." /\ SameName(SubSeq(name, i + 1, Len(name)), of)
Listed(name, pattern) ==
  IF HasPrefix(pattern, <<"*", ".">>) THEN Subdomain(name, CutPrefix(pattern, <<"*", ".">>))
  ELSE SameName(name, pattern)

(* A name passes exactly if some document of the chain lists it: a policy can
   add to what its base allows, and neither narrow it nor open more. *)
NamesOfTheChain ==
  pc = "ok" => \A d \in Names :
    AllowsDomain(pol.endpoints, d) <=>
      \E i \in DOMAIN chain : \E pattern \in ToSet(chain[i].doc.endpoints) :
        pattern # <<>> /\ Listed(TrimSuffix(d, <<".">>), pattern)

Addresses == UNION {{[width |-> w, bits |-> b] : b \in [1..w -> {0, 1}]} : w \in {Width4, Width6}}

(* "A /0 (incl. the v4-mapped ::ffff:0:0/96) ... turns block mode into audit
   mode for a whole address family": no single entry of an accepted policy
   covers every IPv4 address, or every IPv6 one. *)
NoWholeFamily ==
  pc = "ok" => \A n \in ToSet(pol.ips) : \A w \in {Width4, Width6} :
    \E a \in Addresses : To4(a).width = w /\ ~ NetContains(n, a)

(* The filter and the monitor read one list in two ways: an address that is
   not loopback is in the static sets exactly if AllowsIP accepts it, also
   for mapped addresses and mapped entries. *)
FilterMatchesPolicy ==
  pc = "ok" => \A a \in Addresses : FilterAccepts(pol.nets, a) <=> AllowsIP(pol.nets, a)
=============================================================================
