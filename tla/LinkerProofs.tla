---------------------------- MODULE LinkerProofs ----------------------------
(****************************************************************************)
(* Proofs about Linker, for projects of any size whose files are as         *)
(* WellFormed says.  First what each search finds, by the least-number      *)
(* principle; then that the three searches of find_jump_to_function agree   *)
(* with what a jal means; then the invariant: code is relocated once, with  *)
(* the headers of its unit loaded, just before it is emitted; last that     *)
(* pointers to data are there, but in slots of calls, and that the two      *)
(* tables number sections alike.                                            *)
(****************************************************************************)
EXTENDS Linker, FiniteSetTheorems, WellFoundedInduction, TLAPS

\* What is assumed of the projects that may be linked.
AllWellFormed == \A project \in Projects : WellFormed(project)

-----------------------------------------------------------------------------
(* Searches. *)

\* The least number of a set there is.
LEMMA LeastHit ==
    ASSUME NEW hits \in SUBSET Nat, hits # {}
    PROVE  Min(hits) \in hits /\ \A j \in hits : Min(hits) =< j
<1> DEFINE R == {ss \in Nat \X Nat : ss[1] < ss[2]}
<1>1. IsWellFoundedOn(R, Nat)
  BY NatLessThanWellFounded, Zenon DEF OpToRel
<1>2. \E n \in hits : \A m \in hits : ~(<<m, n>> \in R)
  <2> HIDE DEF R
  <2> QED BY <1>1, WFMin
<1>3. PICK n \in hits : \A m \in hits : ~(<<m, n>> \in R)
  BY <1>2
<1>4. ASSUME NEW m \in hits
      PROVE  n =< m
  <2>1. m < n => <<m, n>> \in R
    OBVIOUS
  <2> QED
    BY <1>3, <2>1
<1> QED
  BY <1>4 DEF Min

\* What the first hit of a search is.
LEMMA HitIs ==
    ASSUME NEW seq, DOMAIN seq \subseteq Nat, NEW hits \in SUBSET DOMAIN seq
    PROVE  \/ hits = {} /\ (IF hits = {} THEN None ELSE seq[Min(hits)]) = None
           \/ \E k \in hits : /\ (IF hits = {} THEN None ELSE seq[Min(hits)]) = seq[k]
                              /\ \A j \in DOMAIN seq : j < k => j \notin hits
<1>1. CASE hits = {}
  BY <1>1
<1>2. CASE hits # {}
  <2> DEFINE k == Min(hits)
  <2>1. k \in hits /\ \A j \in hits : k =< j
    BY <1>2, LeastHit
  <2> HIDE DEF k
  <2>2. \A j \in DOMAIN seq : j < k => j \notin hits
    BY <2>1
  <2> QED
    BY <1>2, <2>1, <2>2 DEF k
<1> QED
  BY <1>1, <1>2

\* The first entry that is there, or None.
LEMMA FoundIs ==
    ASSUME NEW seq, DOMAIN seq \subseteq Nat
    PROVE  \/ FirstFound(seq) = None /\ \A k \in DOMAIN seq : seq[k] = None
           \/ \E k \in DOMAIN seq : /\ FirstFound(seq) = seq[k] /\ seq[k] # None
                                    /\ \A j \in DOMAIN seq : j < k => seq[j] = None
<1> DEFINE hits == {j \in DOMAIN seq : seq[j] # None}
<1>1. FirstFound(seq) = IF hits = {} THEN None ELSE seq[Min(hits)]
  BY DEF FirstFound, First
<1> QED
  BY <1>1, HitIs

-----------------------------------------------------------------------------
(* Units. *)

\* What is known of a unit of a project.
LEMMA UnitIs ==
    ASSUME units \in Projects, NEW u \in Units
    PROVE  /\ IsUnit(units[u]) /\ Units = 1 .. Len(units) /\ Len(units) \in Nat \ {0}
           /\ DOMAIN units[u].splits \subseteq Nat /\ DOMAIN Relocs(u) \subseteq Nat
           /\ DOMAIN units[u].relocs \subseteq Nat /\ DOMAIN units[u].sections \subseteq Nat
           /\ DOMAIN Headers(units[u]) \subseteq Nat
  BY ProjectsAssumption DEF Units, IsUnit, Relocs, Headers

\* What is known of a split.
LEMMA SplitIs ==
    ASSUME units \in Projects, NEW u \in Units, NEW x \in Range(units[u].splits)
    PROVE  /\ x.start \in Nat /\ x.end \in Nat /\ x.start < x.end
           /\ x.name \in STRING /\ x # None /\ x # Nobody /\ x.name # None
<1>1. IsUnit(units[u])
  BY UnitIs
<1>2. PICK j \in DOMAIN units[u].splits : x = units[u].splits[j]
  BY DEF Range
<1>3. x \in SplitRecord
  BY <1>1, <1>2 DEF IsUnit
<1> QED
  BY <1>1, <1>3 DEF IsUnit, SplitRecord

\* The first function that starts at the target, in one of the two senses.
Reaches(x) == x.section = ".text" /\ Target \in {x.start, x.start + Offset}

\* What the search of one unit finds.
LEMMA AtTargetIs ==
    ASSUME units \in Projects, NEW u \in Units
    PROVE  \/ AtTarget(u) = None /\ \A j \in DOMAIN units[u].splits : ~Reaches(units[u].splits[j])
           \/ \E k \in DOMAIN units[u].splits :
                 /\ AtTarget(u) = units[u].splits[k] /\ Reaches(units[u].splits[k])
                 /\ \A j \in DOMAIN units[u].splits : j < k => ~Reaches(units[u].splits[j])
<1> DEFINE seq == units[u].splits
           hits == {j \in DOMAIN seq : Reaches(seq[j])}
<1>1. AtTarget(u) = IF hits = {} THEN None ELSE seq[Min(hits)]
  BY DEF AtTarget, First, Reaches
<1>2. DOMAIN seq \subseteq Nat
  BY UnitIs
<1> HIDE DEF seq
<1>3. \/ hits = {} /\ AtTarget(u) = None
      \/ \E k \in hits : AtTarget(u) = seq[k] /\ \A j \in DOMAIN seq : j < k => j \notin hits
  BY <1>1, <1>2, HitIs
<1>4. \/ AtTarget(u) = None /\ \A j \in DOMAIN seq : ~Reaches(seq[j])
      \/ \E k \in DOMAIN seq : /\ AtTarget(u) = seq[k] /\ Reaches(seq[k])
                               /\ \A j \in DOMAIN seq : j < k => ~Reaches(seq[j])
  BY <1>3
<1> QED
  BY <1>4 DEF seq

\* The relocation of the instruction at an offset of .text.
LEMMA MeantIs ==
    ASSUME units \in Projects, NEW u \in Units, NEW p
    PROVE  \/ /\ Meant(units[u], p) = None
              /\ \A k \in DOMAIN units[u].relocs :
                    ~(units[u].relocs[k].section = ".text" /\ units[u].relocs[k].offset = p)
           \/ \E k \in DOMAIN units[u].relocs :
                 /\ Meant(units[u], p) = units[u].relocs[k] /\ units[u].relocs[k] # None
                 /\ units[u].relocs[k].section = ".text" /\ units[u].relocs[k].offset = p
<1> DEFINE seq == units[u].relocs
           hits == {j \in DOMAIN seq : seq[j].section = ".text" /\ seq[j].offset = p}
<1>1. Meant(units[u], p) = IF hits = {} THEN None ELSE seq[Min(hits)]
  BY DEF Meant, First
<1>2. /\ DOMAIN seq \subseteq Nat
      /\ \A k \in DOMAIN seq : seq[k] # None
  BY UnitIs DEF IsUnit, Range
<1> HIDE DEF seq
<1>3. \/ hits = {} /\ Meant(units[u], p) = None
      \/ \E k \in hits : Meant(units[u], p) = seq[k]
  BY <1>1, <1>2, HitIs
<1>4. \/ /\ Meant(units[u], p) = None
         /\ \A k \in DOMAIN seq : ~(seq[k].section = ".text" /\ seq[k].offset = p)
      \/ \E k \in DOMAIN seq : /\ Meant(units[u], p) = seq[k] /\ seq[k] # None
                               /\ seq[k].section = ".text" /\ seq[k].offset = p
  BY <1>2, <1>3
<1> QED
  BY <1>4 DEF seq

\* The relocation the code finds at an offset, in a function: the one meant.
AtOffset(u, p) == First(Relocs(u), LAMBDA r : r.offset = p)

\* What the search for a relocation by its offset alone finds.
LEMMA AtOffsetIs ==
    ASSUME units \in Projects, NEW u \in Units, NEW p
    PROVE  \/ /\ AtOffset(u, p) = None
              /\ \A k \in DOMAIN Relocs(u) : Relocs(u)[k].offset # p
           \/ \E k \in DOMAIN Relocs(u) :
                 AtOffset(u, p) = Relocs(u)[k] /\ Relocs(u)[k].offset = p
<1> DEFINE seq == Relocs(u)
           hits == {j \in DOMAIN seq : seq[j].offset = p}
<1>1. AtOffset(u, p) = IF hits = {} THEN None ELSE seq[Min(hits)]
  BY DEF AtOffset, First
<1>2. DOMAIN seq \subseteq Nat
  BY UnitIs
<1> HIDE DEF seq
<1>3. \/ hits = {} /\ AtOffset(u, p) = None
      \/ \E k \in hits : AtOffset(u, p) = seq[k]
  BY <1>1, <1>2, HitIs
<1>4. \/ AtOffset(u, p) = None /\ \A k \in DOMAIN seq : seq[k].offset # p
      \/ \E k \in DOMAIN seq : AtOffset(u, p) = seq[k] /\ seq[k].offset = p
  BY <1>3
<1> QED
  BY <1>4 DEF seq

\* Inside a function no other section's relocation is taken for one of .text.
LEMMA AtOffsetMeant ==
    ASSUME units \in Projects, AllWellFormed, NEW u \in Units, NEW x \in Functions(u),
           NEW p \in x.start .. x.end - 1
    PROVE  AtOffset(u, p) = Meant(units[u], p)
<1>1. IsUnit(units[u])
  BY UnitIs
<1>2. \A k \in DOMAIN units[u].relocs :
         units[u].relocs[k].offset = p => units[u].relocs[k].section = ".text"
  BY DEF AllWellFormed, WellFormed, RelocationsApart, Functions, Units, Range
<1>3. Relocs(u) = units[u].relocs
  BY <1>1 DEF Relocs, IsUnit
<1>4. ASSUME NEW j \in DOMAIN units[u].relocs, NEW k \in DOMAIN units[u].relocs,
             units[u].relocs[j].offset = p, units[u].relocs[k].offset = p
      PROVE  j = k
  BY <1>1, <1>2, <1>4 DEF IsUnit
<1>5. \A k \in DOMAIN units[u].relocs : units[u].relocs[k] # None
  BY <1>1 DEF IsUnit, Range
<1> DEFINE seq == units[u].relocs
<1>6. \/ AtOffset(u, p) = None /\ \A k \in DOMAIN seq : seq[k].offset # p
      \/ \E k \in DOMAIN seq : AtOffset(u, p) = seq[k] /\ seq[k].offset = p
  BY <1>3, AtOffsetIs
<1>7. \/ /\ Meant(units[u], p) = None
         /\ \A k \in DOMAIN seq : ~(seq[k].section = ".text" /\ seq[k].offset = p)
      \/ \E k \in DOMAIN seq : Meant(units[u], p) = seq[k] /\ seq[k].offset = p
  BY MeantIs
<1> HIDE DEF seq
<1>8. /\ \A k \in DOMAIN seq : seq[k].offset = p => seq[k].section = ".text"
      /\ \A j, k \in DOMAIN seq : seq[j].offset = p /\ seq[k].offset = p => j = k
  BY <1>2, <1>4 DEF seq
<1> QED
  BY <1>6, <1>7, <1>8

-----------------------------------------------------------------------------
(* Sections and functions of a well-formed project. *)

\* A section called .text is never without a type.
LEMMA TextIsTyped == HeaderType(TypeOf(".text")) = "progbits"
<1>1. TypeOf(".text") = ".text"
  BY Zenon DEF TypeOf, KnownNames
<1>2. HeaderType(".text") = "progbits"
  BY Zenon DEF HeaderType
<1> QED
  BY <1>1, <1>2

\* What the headers of a unit are.
LEMMA HeadersAre ==
    ASSUME units \in Projects, NEW u \in Units, NEW k \in DOMAIN Headers(units[u])
    PROVE  LET h == Headers(units[u])[k] IN
           \/ /\ units[u].format = "elf" /\ Headers(units[u]) = units[u].sections
              /\ h \in SectionHeader
           \/ /\ units[u].format = "xff" /\ h.address = 0
              /\ h.name = ".text" => h.type = "progbits"
<1>1. IsUnit(units[u])
  BY UnitIs
<1>2. CASE units[u].format = "elf"
  <2>1. Headers(units[u]) = units[u].sections
    BY <1>2, Zenon DEF Headers
  <2> QED
    BY <1>1, <1>2, <2>1 DEF IsUnit
<1>3. CASE units[u].format = "xff"
  <2>1. Headers(units[u]) = [n \in DOMAIN units[u].sections |-> FromXff(units[u].sections[n])]
    BY <1>3, Zenon DEF Headers
  <2>2. units[u].sections[k] \in SectionHeader /\ k \in DOMAIN units[u].sections
    BY <1>1, <2>1 DEF IsUnit
  <2> DEFINE s == units[u].sections[k]
  <2>3. Headers(units[u])[k] = [s EXCEPT !.type = HeaderType(TypeOf(s.name)), !.address = 0]
    BY <2>1, <2>2 DEF FromXff
  <2>4. /\ Headers(units[u])[k].address = 0 /\ Headers(units[u])[k].name = s.name
        /\ Headers(units[u])[k].type = HeaderType(TypeOf(s.name))
    BY <2>2, <2>3 DEF SectionHeader
  <2> QED
    BY <1>3, <2>4, TextIsTyped
<1>4. CASE units[u].format \notin {"elf", "xff"}
  <2>1. Headers(units[u]) = <<>>
    BY <1>4, Zenon DEF Headers
  <2> QED
    BY <2>1
<1> QED
  BY <1>2, <1>3, <1>4

\* A unit has one section of functions, at the unit's address.
LEMMA TextHeader ==
    ASSUME units \in Projects, AllWellFormed, NEW u \in Units,
           NEW k \in DOMAIN Headers(units[u]), Headers(units[u])[k].name = ".text"
    PROVE  /\ Headers(units[u])[k].address = Base(u)
           /\ Headers(units[u])[k].type # "null"
           /\ \A j \in DOMAIN Headers(units[u]) : Headers(units[u])[j].name = ".text" => j = k
<1> DEFINE h == Headers(units[u])
<1>1. IsUnit(units[u])
  BY UnitIs
<1>2. \A j \in DOMAIN h : h[j].name = ".text" => h[j].type # "null"
  <2>1. units[u].format = "elf" => \A s \in Range(units[u].sections) :
                                      s.name = ".text" => s.type # "null"
    BY <1>1 DEF IsUnit
  <2> QED
    BY <2>1, HeadersAre DEF Range
<1>3. \A j \in DOMAIN h : h[j].name = ".text" => j = k
  BY <1>2 DEF AllWellFormed, WellFormed, ConstantsApart, Units
<1>4. CASE units[u].format = "elf"
  <2> DEFINE seq == units[u].sections
             hits == {j \in DOMAIN seq : seq[j].name = ".text"}
             t == IF hits = {} THEN None ELSE seq[Min(hits)]
  <2>1. Base(u) = t.address
    BY <1>4 DEF Base, Address, First
  <2>2. DOMAIN seq \subseteq Nat
    BY UnitIs
  <2>3. h = seq
    BY <1>4, HeadersAre
  <2> HIDE DEF seq
  <2>4. k \in hits
    BY <2>3
  <2>5. \E j \in hits : t = seq[j]
    BY <2>2, <2>4, HitIs
  <2> HIDE DEF t
  <2>6. t = seq[k]
    BY <1>3, <2>3, <2>5
  <2> QED
    BY <1>2, <1>3, <2>1, <2>3, <2>6
<1>5. CASE units[u].format # "elf"
  BY <1>2, <1>3, <1>5, HeadersAre DEF Base, Address
<1> QED
  BY <1>4, <1>5

\* Which units have an address, and where it is written.
LEMMA BaseIs ==
    ASSUME units \in Projects, AllWellFormed, NEW u \in Units
    PROVE  /\ Base(u) \in Nat /\ (units[u].format # "elf" => Base(u) = 0)
           /\ units[u].format = "elf" =>
                 \E k \in DOMAIN Headers(units[u]) : Headers(units[u])[k].name = ".text"
<1>1. CASE units[u].format # "elf"
  BY <1>1 DEF Base, Address
<1>2. CASE units[u].format = "elf"
  <2>1. IsUnit(units[u])
    BY UnitIs
  <2>2. Headers(units[u]) = units[u].sections
    BY <1>2, Zenon DEF Headers
  <2>3. PICK k \in DOMAIN Headers(units[u]) : Headers(units[u])[k].name = ".text"
    BY <1>2, <2>1, <2>2 DEF IsUnit, Range
  <2>4. Headers(units[u])[k].address \in Nat
    BY <1>2, <2>3, HeadersAre DEF SectionHeader
  <2> QED
    BY <1>2, <2>3, <2>4, TextHeader
<1> QED
  BY <1>1, <1>2

\* Functions of a unit in the order of their splits; no two begin together.
LEMMA InSequence ==
    ASSUME units \in Projects, AllWellFormed, NEW u \in Units,
           NEW j \in DOMAIN units[u].splits, units[u].splits[j].section = ".text",
           NEW k \in DOMAIN units[u].splits, units[u].splits[k].section = ".text"
    PROVE  /\ units[u].splits[j].start < units[u].splits[k].start => j < k
           /\ units[u].splits[j].start = units[u].splits[k].start => j = k
<1>1. j \in Nat /\ k \in Nat
  BY UnitIs
<1>2. ASSUME NEW n \in {j, k}
      PROVE  /\ units[u].splits[n].start \in Nat /\ units[u].splits[n].end \in Nat
             /\ units[u].splits[n].start < units[u].splits[n].end
  BY SplitIs DEF Range
<1>3. /\ j < k => units[u].splits[j].end =< units[u].splits[k].start
      /\ k < j => units[u].splits[k].end =< units[u].splits[j].start
  BY DEF AllWellFormed, WellFormed, InOrder, Units
<1> QED
  BY <1>1, <1>2, <1>3

\* A function of a unit is known by where it starts.
LEMMA FunctionsApart ==
    ASSUME units \in Projects, AllWellFormed, NEW u \in Units,
           NEW x \in Functions(u), NEW y \in Functions(u), x.start = y.start
    PROVE  x = y
<1>1. PICK j \in DOMAIN units[u].splits : x = units[u].splits[j]
  BY DEF Functions, Texts, Range
<1>2. PICK k \in DOMAIN units[u].splits : y = units[u].splits[k]
  BY DEF Functions, Texts, Range
<1>3. x.section = ".text" /\ y.section = ".text"
  BY DEF Functions, Texts
<1> QED
  BY <1>1, <1>2, <1>3, InSequence

-----------------------------------------------------------------------------
(* What relocating leaves of an instruction. *)

Moved(u, p) == LET r == AtOffset(u, p)
               IN  IF r # None THEN Apply(units[u].words[p], r) ELSE units[u].words[p]

\* The half of an address a relocation is for.
HalfOf(r) == IF r.type = "high16" THEN r.symbol.value \div Half ELSE r.symbol.value % Half

\* A half of a symbol's value is one of an immediate.
LEMMA HalvesAre ==
    /\ Half \in Nat \ {0}
    /\ \A r \in Relocation : HalfOf(r) \in 0 .. Half - 1 /\ r.symbol.value \in Nat
<1>1. Half \in Nat \ {0}
  BY HalfAssumption DEF Half
<1>2. ASSUME NEW v \in 0 .. Half * Half - 1
      PROVE  v % Half \in 0 .. Half - 1 /\ v \div Half \in 0 .. Half - 1
  <2> DEFINE h == Half
             q == v \div h
  <2>1. h \in Nat \ {0} /\ v \in Nat /\ v < h * h /\ h * h \in Nat
    BY <1>1, <1>2
  <2> HIDE DEF h
  <2>2. v % h \in 0 .. h - 1 /\ q \in Int
    BY <2>1
  <2>3. v = (h * q) + (v % h)
    BY <2>1, Z3
  <2> HIDE DEF q
  <2>4. q >= 0
    <3>1. SUFFICES ASSUME q =< -1
                   PROVE  FALSE
      BY <2>2
    <3>2. h * q =< -h
      BY <2>1, <2>2, <3>1, Z3
    <3> QED
      BY <2>1, <2>2, <2>3, <3>2
  <2>5. q =< h - 1
    <3>1. SUFFICES ASSUME q >= h
                   PROVE  FALSE
      BY <2>1, <2>2
    <3>2. h * q >= h * h
      BY <2>1, <2>2, <3>1, Z3
    <3> QED
      BY <2>1, <2>2, <2>3, <3>2
  <2>6. q \in 0 .. h - 1
    BY <2>1, <2>2, <2>4, <2>5
  <2> QED
    BY <2>2, <2>6 DEF q, h
<1>3. ASSUME NEW r \in Relocation
      PROVE  r.symbol.value \in 0 .. Half * Half - 1
  BY DEF Relocation, SymbolRecord
<1>4. \A v \in 0 .. Half * Half - 1 : v \in Nat
  BY <1>1
<1> QED
  BY <1>1, <1>2, <1>3, <1>4 DEF HalfOf

\* Relocating adds words to jumps and bits to immediates, and never makes a transfer.
LEMMA ApplyIs ==
    ASSUME NEW w \in Instruction, NEW r \in Relocation,
           w.kind # "plain" => w.kind = "jal" /\ r.type = "26",
           r.type \in {"high16", "low16"} => w.field < Half
    PROVE  /\ Apply(w, r) \in Instruction /\ Apply(w, r).kind = w.kind
           /\ r.type = "26" => Apply(w, r).field = w.field + Word * r.symbol.value
           /\ r.type \in {"high16", "low16"} =>
                 /\ Apply(w, r) = [w EXCEPT !.field = Or(w.field, HalfOf(r))]
                 /\ Or(w.field, HalfOf(r)) \in w.field .. Half - 1
<1>1. r.symbol.value \in Nat /\ w.field \in Nat /\ Half \in Nat /\ HalfOf(r) \in 0 .. Half - 1
  BY HalvesAre DEF Instruction
<1>2. w.field + Word * r.symbol.value \in Nat
  BY <1>1, WordAssumption
<1>3. CASE r.type = "26"
  <2> DEFINE n == w.field + Word * r.symbol.value
  <2>1. Apply(w, r) = [w EXCEPT !.field = n]
    BY <1>3, Zenon DEF Apply
  <2> HIDE DEF n
  <2>2. n \in Nat
    BY <1>2 DEF n
  <2>3. /\ [w EXCEPT !.field = n] \in Instruction /\ [w EXCEPT !.field = n].field = n
        /\ [w EXCEPT !.field = n].kind = w.kind
    BY <2>2 DEF Instruction
  <2> QED
    BY <1>3, <2>1, <2>3 DEF n
<1>4. CASE r.type = "32"
  <2>1. Apply(w, r) = [kind |-> "plain", field |-> r.symbol.value]
    BY <1>4, Zenon DEF Apply
  <2> QED
    BY <1>1, <1>4, <2>1 DEF Instruction
<1>5. CASE r.type \in {"high16", "low16"}
  <2> DEFINE n == Or(w.field, HalfOf(r))
  <2>1. Apply(w, r) = [w EXCEPT !.field = n]
    <3>1. CASE r.type = "high16"
      BY <3>1, Zenon DEF Apply, HalfOf
    <3>2. CASE r.type = "low16"
      <4>1. HalfOf(r) = r.symbol.value % Half
        BY <3>2 DEF HalfOf
      <4> QED
        BY <3>2, <4>1, Zenon DEF Apply
    <3> QED
      BY <1>5, <3>1, <3>2
  <2>2. n \in w.field .. Half - 1
    <3>1. w.field \in 0 .. Half - 1
      BY <1>1, <1>5
    <3> QED
      BY <1>1, <3>1, OrAssumption
  <2> HIDE DEF n
  <2>3. n \in Nat
    BY <1>1, <2>2
  <2>4. [w EXCEPT !.field = n] \in Instruction /\ [w EXCEPT !.field = n].kind = w.kind
    BY <2>3 DEF Instruction
  <2> QED
    BY <1>5, <2>1, <2>2, <2>4 DEF n
<1> QED
  BY <1>3, <1>4, <1>5 DEF Relocation

\* A relocated instruction is one, and a jal still a jal, with its slot beside it.
LEMMA MovedIs ==
    ASSUME units \in Projects, AllWellFormed, NEW u \in Units, NEW x \in Functions(u),
           NEW p \in x.start .. x.end - 1
    PROVE  /\ p \in DOMAIN units[u].words /\ Moved(u, p) \in Instruction
           /\ Moved(u, p).kind = units[u].words[p].kind
           /\ Moved(u, p).kind # "plain" => p + 1 \in x.start .. x.end - 1
           /\ Moved(u, p).kind = "jal" =>
                 Moved(u, p).field = IF Meant(units[u], p) = None THEN units[u].words[p].field
                                     ELSE units[u].words[p].field
                                             + Word * Meant(units[u], p).symbol.value
<1> DEFINE r == Meant(units[u], p)
           w == units[u].words[p]
<1>1. IsUnit(units[u])
  BY UnitIs
<1>2. x \in Range(units[u].splits) /\ x.section = ".text"
  BY DEF Functions, Texts
<1>3. /\ p \in DOMAIN units[u].words /\ w \in Instruction
      /\ w.kind # "plain" => p + 1 \in x.start .. x.end - 1
  <2>1. p \in DOMAIN units[u].words /\ (w.kind # "plain" => p + 1 < x.end)
    BY <1>1, <1>2 DEF IsUnit
  <2>2. x.start \in Nat /\ x.end \in Nat
    BY <1>2, SplitIs
  <2> QED
    BY <1>1, <2>1, <2>2 DEF IsUnit
<1>4. Moved(u, p) = IF r # None THEN Apply(w, r) ELSE w
  BY AtOffsetMeant DEF Moved
<1>5. CASE r = None
  BY <1>3, <1>4, <1>5
<1>6. CASE r # None
  <2>1. PICK k \in DOMAIN units[u].relocs : /\ r = units[u].relocs[k]
                                            /\ r.section = ".text" /\ r.offset = p
    BY <1>6, MeantIs
  <2>2. r \in Range(units[u].relocs) /\ r \in Relocation
    BY <1>1, <2>1 DEF IsUnit, Range
  <2>3. r.type \in {"high16", "low16"} => w.field < Half
    BY <1>1, <2>1, <2>2 DEF IsUnit
  <2>4. w.kind # "plain" => w.kind = "jal" /\ r.type = "26"
    BY <1>1, <2>1, <2>2 DEF IsUnit
  <2> QED
    BY <1>3, <1>4, <1>6, <2>2, <2>3, <2>4, ApplyIs
<1> QED
  BY <1>5, <1>6

-----------------------------------------------------------------------------
(* What the three searches for a callee find. *)

\* The headers of the units loaded so far.
HeadersKept ==
    headers = [u \in Units |-> IF u < unit \/ (u = unit /\ pc # "load")
                               THEN Headers(units[u]) ELSE <<>>]

StaticIn(u, s, value) == First(units[u].splits, LAMBDA x : x.start + s.address = value)
StaticUnit(u, value)  == FirstFound([k \in DOMAIN headers[u] |-> StaticIn(u, headers[u][k], value)])

\* The search for an address in one section of one unit.
LEMMA StaticInIs ==
    ASSUME units \in Projects, NEW u \in Units, NEW s, NEW value
    PROVE  \/ /\ StaticIn(u, s, value) = None
              /\ \A x \in Range(units[u].splits) : x.start + s.address # value
           \/ /\ StaticIn(u, s, value) \in Range(units[u].splits)
              /\ StaticIn(u, s, value).start + s.address = value
<1> DEFINE seq == units[u].splits
           hits == {j \in DOMAIN seq : seq[j].start + s.address = value}
<1>1. StaticIn(u, s, value) = IF hits = {} THEN None ELSE seq[Min(hits)]
  BY DEF StaticIn, First
<1>2. DOMAIN seq \subseteq Nat
  BY UnitIs
<1>3. hits \in SUBSET DOMAIN seq
  OBVIOUS
<1> HIDE DEF seq, hits
<1>4. \/ hits = {} /\ StaticIn(u, s, value) = None
      \/ \E k \in hits : StaticIn(u, s, value) = seq[k]
  BY <1>1, <1>2, <1>3, HitIs
<1>5. \/ StaticIn(u, s, value) = None /\ \A j \in DOMAIN seq : seq[j].start + s.address # value
      \/ \E k \in DOMAIN seq : StaticIn(u, s, value) = seq[k] /\ seq[k].start + s.address = value
  BY <1>4 DEF hits
<1> QED
  BY <1>5 DEF seq, Range

\* find_static_address finds a split at the address, in one of the sections loaded.
LEMMA StaticIs ==
    ASSUME units \in Projects, HeadersKept, NEW value
    PROVE  \/ /\ Static(value) = Nobody
              /\ \A u \in Units : \A k \in DOMAIN headers[u] : \A x \in Range(units[u].splits) :
                    x.start + headers[u][k].address # value
           \/ \E u \in Units : \E k \in DOMAIN headers[u] :
                 /\ Static(value) \in Range(units[u].splits)
                 /\ Static(value).start + headers[u][k].address = value
<1> DEFINE all == [u \in Units |-> StaticUnit(u, value)]
<1>1. Static(value) = IF FirstFound(all) = None THEN Nobody ELSE FirstFound(all)
  BY DEF Static, StaticUnit, StaticIn, Units
<1>2. ASSUME NEW u \in Units
      PROVE  DOMAIN headers[u] \subseteq Nat
  BY UnitIs DEF HeadersKept
<1>3. ASSUME NEW u \in Units
      PROVE  LET f == [k \in DOMAIN headers[u] |-> StaticIn(u, headers[u][k], value)] IN
             \/ StaticUnit(u, value) = None /\ \A k \in DOMAIN headers[u] : f[k] = None
             \/ \E k \in DOMAIN headers[u] : StaticUnit(u, value) = f[k] /\ f[k] # None
  <2> DEFINE f == [k \in DOMAIN headers[u] |-> StaticIn(u, headers[u][k], value)]
  <2>1. StaticUnit(u, value) = FirstFound(f) /\ DOMAIN f = DOMAIN headers[u]
    BY DEF StaticUnit
  <2> HIDE DEF f
  <2>2. \/ FirstFound(f) = None /\ \A k \in DOMAIN f : f[k] = None
        \/ \E k \in DOMAIN f : FirstFound(f) = f[k] /\ f[k] # None
    BY <1>2, <2>1, FoundIs
  <2> QED
    BY <2>1, <2>2 DEF f
<1>4. ASSUME NEW u \in Units
      PROVE  \/ /\ StaticUnit(u, value) = None
                /\ \A k \in DOMAIN headers[u] : \A x \in Range(units[u].splits) :
                      x.start + headers[u][k].address # value
             \/ \E k \in DOMAIN headers[u] :
                   /\ StaticUnit(u, value) \in Range(units[u].splits)
                   /\ StaticUnit(u, value).start + headers[u][k].address = value
  <2>1. CASE /\ StaticUnit(u, value) = None
             /\ \A k \in DOMAIN headers[u] : StaticIn(u, headers[u][k], value) = None
    <3>1. ASSUME NEW k \in DOMAIN headers[u], NEW x \in Range(units[u].splits)
          PROVE  x.start + headers[u][k].address # value
      <4>1. StaticIn(u, headers[u][k], value) \notin Range(units[u].splits)
        BY <2>1, SplitIs
      <4> QED
        BY <4>1, StaticInIs
    <3> QED
      BY <2>1, <3>1
  <2>2. ASSUME NEW k \in DOMAIN headers[u], StaticUnit(u, value) = StaticIn(u, headers[u][k], value),
               StaticIn(u, headers[u][k], value) # None
        PROVE  /\ StaticUnit(u, value) \in Range(units[u].splits)
               /\ StaticUnit(u, value).start + headers[u][k].address = value
    BY <2>2, StaticInIs
  <2> QED
    BY <1>3, <2>1, <2>2
<1>5. \/ FirstFound(all) = None /\ \A u \in Units : all[u] = None
      \/ \E u \in Units : FirstFound(all) = all[u] /\ all[u] # None
  <2>1. DOMAIN all = Units /\ DOMAIN all \subseteq Nat
    BY UnitIs
  <2> HIDE DEF all
  <2> QED
    BY <2>1, FoundIs
<1>6. CASE FirstFound(all) = None /\ \A u \in Units : all[u] = None
  <2>1. ASSUME NEW u \in Units
        PROVE  \A k \in DOMAIN headers[u] : \A x \in Range(units[u].splits) :
                   x.start + headers[u][k].address # value
    <3>1. StaticUnit(u, value) = None /\ None \notin Range(units[u].splits)
      BY <1>6, SplitIs
    <3> QED
      BY <1>4, <3>1
  <2> QED
    BY <1>1, <1>6, <2>1
<1>7. CASE \E u \in Units : FirstFound(all) = all[u] /\ all[u] # None
  <2>1. PICK u \in Units : FirstFound(all) = StaticUnit(u, value) /\ StaticUnit(u, value) # None
    BY <1>7
  <2>2. Static(value) = StaticUnit(u, value)
    BY <1>1, <2>1
  <2> QED
    BY <1>4, <2>1, <2>2
<1> QED
  BY <1>5, <1>6, <1>7

\* Which splits a symbol's name may refer to.
Refers(symbol, x) == /\ symbol.name = None => TypeOf(symbol.section) \in {"null", x.section}
                     /\ x.name = symbol.name \/ x.start = Target

\* What the search by a symbol finds.
LEMMA ByNameIs ==
    ASSUME units \in Projects, unit \in Units, NEW symbol
    PROVE  \/ ByName(symbol) = None /\ \A x \in Range(units[unit].splits) : ~Refers(symbol, x)
           \/ ByName(symbol) \in Range(units[unit].splits) /\ Refers(symbol, ByName(symbol))
<1> DEFINE seq == units[unit].splits
           hits == {j \in DOMAIN seq : Refers(symbol, seq[j])}
<1>1. ByName(symbol) = IF hits = {} THEN None ELSE seq[Min(hits)]
  BY DEF ByName, First, Refers
<1>2. DOMAIN seq \subseteq Nat
  BY UnitIs
<1> HIDE DEF seq
<1>3. \/ hits = {} /\ ByName(symbol) = None
      \/ \E k \in hits : ByName(symbol) = seq[k]
  BY <1>1, <1>2, HitIs
<1>4. \/ ByName(symbol) = None /\ \A j \in DOMAIN seq : ~Refers(symbol, seq[j])
      \/ \E k \in DOMAIN seq : ByName(symbol) = seq[k] /\ Refers(symbol, seq[k])
  BY <1>3
<1> QED
  BY <1>4 DEF seq, Range

\* What the relocation of a call finds.
SymbolFinds(symbol) == IF symbol.absolute THEN Static(symbol.value) ELSE ByName(symbol)

\* A call in a function has one relocation at most, so it alone is tried.
LEMMA BySymbolIs ==
    ASSUME units \in Projects, AllWellFormed, unit \in Units, NEW x \in Functions(unit),
           i \in x.start .. x.end - 1
    PROVE  BySymbol = IF Meant(units[unit], i) = None THEN None
                      ELSE SymbolFinds(Meant(units[unit], i).symbol)
<1> DEFINE m == Meant(units[unit], i)
           seq == Relocs(unit)
           g == [k \in DOMAIN seq |-> IF seq[k].offset # i THEN None ELSE SymbolFinds(seq[k].symbol)]
<1>1. BySymbol = FirstFound(g) /\ DOMAIN g = DOMAIN seq /\ DOMAIN seq \subseteq Nat
  <2>1. ASSUME NEW r
        PROVE  (IF r.offset # i THEN None
                ELSE IF r.symbol.absolute THEN Static(r.symbol.value) ELSE ByName(r.symbol))
               = (IF r.offset # i THEN None ELSE SymbolFinds(r.symbol))
    BY DEF SymbolFinds
  <2> QED
    BY <2>1, UnitIs DEF BySymbol
<1>2. AtOffset(unit, i) = m
  BY AtOffsetMeant
<1>3. ASSUME NEW j \in DOMAIN seq, NEW k \in DOMAIN seq, seq[j].offset = i, seq[k].offset = i
      PROVE  j = k
  <2>1. IsUnit(units[unit])
    BY UnitIs
  <2>2. seq = units[unit].relocs
    BY <2>1 DEF Relocs, IsUnit
  <2>3. seq[j].section = ".text" /\ seq[k].section = ".text"
    BY <1>3, <2>2 DEF AllWellFormed, WellFormed, RelocationsApart, Functions, Units, Range
  <2> QED
    BY <1>3, <2>1, <2>2, <2>3 DEF IsUnit
<1>4. \/ m = None /\ \A k \in DOMAIN seq : seq[k].offset # i
      \/ \E k \in DOMAIN seq : m = seq[k] /\ m # None /\ seq[k].offset = i
  <2>1. \A k \in DOMAIN seq : seq[k] # None
    BY UnitIs DEF Relocs, IsUnit, Range
  <2> QED
    BY <1>2, <2>1, AtOffsetIs
<1>5. \/ FirstFound(g) = None /\ \A k \in DOMAIN g : g[k] = None
      \/ \E k \in DOMAIN g : FirstFound(g) = g[k] /\ g[k] # None
  <2> HIDE DEF g
  <2> QED
    BY <1>1, FoundIs
<1>6. \A k \in DOMAIN seq : g[k] = IF seq[k].offset # i THEN None ELSE SymbolFinds(seq[k].symbol)
  OBVIOUS
<1> HIDE DEF g, m, seq
<1>7. CASE m = None /\ \A k \in DOMAIN seq : seq[k].offset # i
  BY <1>1, <1>5, <1>6, <1>7 DEF m
<1>8. CASE \E k \in DOMAIN seq : m = seq[k] /\ m # None /\ seq[k].offset = i
  <2> PICK k \in DOMAIN seq : m = seq[k] /\ m # None /\ seq[k].offset = i
    BY <1>8
  <2>1. \A j \in DOMAIN seq : j # k => g[j] = None
    BY <1>3, <1>6
  <2>2. g[k] = SymbolFinds(m.symbol)
    BY <1>6
  <2> QED
    BY <1>1, <1>5, <2>1, <2>2 DEF m
<1> QED
  BY <1>4, <1>7, <1>8

\* The search in all units.
LEMMA AnywhereIs ==
    ASSUME units \in Projects
    PROVE  \/ /\ Anywhere = None
              /\ \A u \in Units : \A x \in Range(units[u].splits) : ~Reaches(x)
           \/ \E u \in Units : Anywhere = AtTarget(u) /\ AtTarget(u) # None
<1> DEFINE all == [u \in Units |-> AtTarget(u)]
<1>1. Anywhere = FirstFound(all) /\ DOMAIN all = Units /\ DOMAIN all \subseteq Nat
  BY UnitIs DEF Anywhere, Units
<1>2. \A u \in Units : all[u] = AtTarget(u)
  OBVIOUS
<1> HIDE DEF all
<1>3. \/ Anywhere = None /\ \A u \in Units : AtTarget(u) = None
      \/ \E u \in Units : Anywhere = AtTarget(u) /\ AtTarget(u) # None
  BY <1>1, <1>2, FoundIs
<1>4. ASSUME NEW u \in Units, AtTarget(u) = None
      PROVE  \A x \in Range(units[u].splits) : ~Reaches(x)
  <2>1. \A k \in DOMAIN units[u].splits : units[u].splits[k] # None
    BY SplitIs DEF Range
  <2>2. \A j \in DOMAIN units[u].splits : ~Reaches(units[u].splits[j])
    BY <1>4, <2>1, AtTargetIs
  <2> QED
    BY <2>2 DEF Range
<1> QED
  BY <1>3, <1>4

\* The three searches, one after the other.
LEMMA CalleeIs ==
    Callee = IF AtTarget(unit) # None THEN AtTarget(unit)
             ELSE IF BySymbol # None THEN BySymbol ELSE Anywhere
<1> DEFINE seq == <<AtTarget(unit), BySymbol, Anywhere>>
<1>1. Callee = FirstFound(seq)
  BY DEF Callee
<1>2. /\ DOMAIN seq = {1, 2, 3} /\ seq[1] = AtTarget(unit) /\ seq[2] = BySymbol
      /\ seq[3] = Anywhere
  OBVIOUS
<1> HIDE DEF seq
<1>3. \/ FirstFound(seq) = None /\ \A k \in DOMAIN seq : seq[k] = None
      \/ \E k \in DOMAIN seq : /\ FirstFound(seq) = seq[k] /\ seq[k] # None
                               /\ \A j \in DOMAIN seq : j < k => seq[j] = None
  BY <1>2, FoundIs
<1>4. CASE FirstFound(seq) = None /\ \A k \in DOMAIN seq : seq[k] = None
  BY <1>1, <1>2, <1>4
<1>5. ASSUME NEW k \in {1, 2, 3}, FirstFound(seq) = seq[k], seq[k] # None,
             \A j \in {1, 2, 3} : j < k => seq[j] = None
      PROVE  FirstFound(seq) = IF seq[1] # None THEN seq[1]
                               ELSE IF seq[2] # None THEN seq[2] ELSE seq[3]
  BY <1>5
<1> QED
  BY <1>1, <1>2, <1>3, <1>4, <1>5

-----------------------------------------------------------------------------
(* What a call in a function calls. *)

\* The instruction being emitted is a jal of function x, relocated.
Calling(x) ==
    /\ unit \in Units /\ HeadersKept /\ pc = "emit"
    /\ section \in DOMAIN headers[unit] /\ Processed(headers[unit][section])
    /\ x \in Functions(unit) /\ i \in x.start .. x.end - 1
    /\ image[unit][i] = Moved(unit, i) /\ Here.kind = "jal"

Relocated(r) == IF r = None THEN units[unit].words[i].field
                ELSE units[unit].words[i].field + Word * r.symbol.value

\* At a call the section's address is the unit's, and an XFF's is zero.
LEMMA CallFacts ==
    ASSUME units \in Projects, AllWellFormed, NEW x, Calling(x)
    PROVE  LET r == Meant(units[unit], i) IN
           /\ Offset = Base(unit) /\ Base(unit) \in Nat /\ headers[unit] = Headers(units[unit])
           /\ i \in Jals(units[unit]) /\ units[unit].words[i].field \in Nat
           /\ Target = Relocated(r)
           /\ r # None => /\ r \in Range(units[unit].relocs) /\ r \in Relocation
                          /\ i \in Linked(units[unit]) /\ Base(unit) = 0
<1> DEFINE r == Meant(units[unit], i)
<1>1. /\ unit \in Units /\ headers[unit] = Headers(units[unit]) /\ section \in DOMAIN headers[unit]
      /\ headers[unit][section].name = ".text" /\ IsUnit(units[unit])
  BY UnitIs DEF Calling, HeadersKept, Processed
<1>2. Offset = Base(unit) /\ Base(unit) \in Nat
  BY <1>1, TextHeader, BaseIs DEF Offset
<1>3. /\ i \in DOMAIN units[unit].words /\ units[unit].words[i].kind = "jal"
      /\ Target = Relocated(r)
  BY MovedIs DEF Calling, Here, Target, Relocated
<1>4. i \in Jals(units[unit]) /\ units[unit].words[i].field \in Nat
  BY <1>1, <1>3 DEF Jals, IsUnit, Instruction
<1>5. ASSUME r # None
      PROVE  /\ r \in Range(units[unit].relocs) /\ r \in Relocation
             /\ i \in Linked(units[unit]) /\ Base(unit) = 0
  <2>1. PICK k \in DOMAIN units[unit].relocs : r = units[unit].relocs[k]
    BY <1>1, <1>5, MeantIs
  <2>2. r \in Range(units[unit].relocs) /\ r \in Relocation /\ units[unit].relocs # <<>>
    BY <1>1, <2>1 DEF IsUnit, Range
  <2>3. units[unit].format = "xff"
    BY <1>1, <2>2 DEF IsUnit
  <2> QED
    BY <1>1, <1>4, <1>5, <2>2, <2>3, BaseIs DEF Linked
<1> QED
  BY <1>1, <1>2, <1>3, <1>4, <1>5

\* What the statements about calls need of the callee found.
CalleeFits(callee) ==
    /\ callee = None => Meaning(unit, i) = {}
    /\ callee \notin {None, Nobody} => callee.name # None /\ callee.name \in Meaning(unit, i)
    /\ callee = Nobody =>
          LET r == Meant(units[unit], i) IN
          /\ r # None /\ r.symbol.absolute
          /\ \A u \in 1 .. unit : Base(u) # 0 => Starting(u, r.symbol.value - Base(u)) = {}

\* A jump without a relocation calls the function at its target, in its own unit.
LEMMA PlainCall ==
    ASSUME units \in Projects, AllWellFormed, NEW x, Calling(x), Meant(units[unit], i) = None
    PROVE  CalleeFits(Callee)
<1> DEFINE a == units[unit].words[i].field
           b == Base(unit)
<1>1. /\ Offset = b /\ b \in Nat /\ a \in Nat /\ Target = a /\ unit \in Units
      /\ i \in Jals(units[unit]) \ Linked(units[unit])
  BY CallFacts DEF Relocated, Linked, Calling
<1>2. /\ b # 0
      /\ \/ \E y \in Texts(units[unit]) : y.start + b = a
         \/ \A v \in Units : \A y \in Texts(units[v]) : a \notin {y.start, y.start + b}
  BY <1>1 DEF AllWellFormed, WellFormed, NoStrayJumps, Base, Units
<1>3. BySymbol = None
  BY BySymbolIs DEF Calling
<1>4. Meaning(unit, i) = AtAddress(a)
  BY DEF Meaning
<1>5. CASE \E y \in Texts(units[unit]) : y.start + b = a
  <2>1. PICK y \in Functions(unit) : y.start + b = a
    BY <1>5 DEF Functions
  <2>2. PICK j \in DOMAIN units[unit].splits : y = units[unit].splits[j]
    BY DEF Functions, Texts, Range
  <2>3. y.section = ".text" /\ y.start \in Nat
    BY <1>1, SplitIs DEF Functions, Texts
  <2>4. Reaches(y)
    BY <1>1, <2>1, <2>3 DEF Reaches
  <2>5. PICK k \in DOMAIN units[unit].splits :
           /\ AtTarget(unit) = units[unit].splits[k] /\ Reaches(units[unit].splits[k])
           /\ \A n \in DOMAIN units[unit].splits : n < k => ~Reaches(units[unit].splits[n])
    BY <1>1, <2>2, <2>4, AtTargetIs
  <2> DEFINE z == units[unit].splits[k]
  <2>6. /\ z \in Range(units[unit].splits) /\ z.section = ".text" /\ z.start \in Nat
        /\ a \in {z.start, z.start + b}
    BY <1>1, <2>5, SplitIs DEF Reaches, Range
  <2>7. z.start + b = a
    <3> SUFFICES ASSUME z.start = a
                 PROVE  FALSE
      BY <2>6
    <3>1. y.start < z.start
      BY <1>1, <1>2, <2>1, <2>3
    <3>2. j < k
      BY <1>1, <2>2, <2>3, <2>6, <3>1, InSequence
    <3> QED
      BY <2>2, <2>4, <2>5, <3>2
  <2>8. z \notin {None, Nobody} /\ z.name # None
    BY <1>1, <2>6, SplitIs
  <2>9. Callee = z
    BY <2>5, <2>8, CalleeIs
  <2>10. z.name \in Starting(unit, a - b)
    BY <1>1, <2>6, <2>7 DEF Starting, Functions, Texts
  <2>11. z.name \in AtAddress(a)
    BY <1>1, <1>2, <2>10 DEF AtAddress
  <2> QED
    BY <1>4, <2>8, <2>9, <2>11 DEF CalleeFits
<1>6. CASE \A v \in Units : \A y \in Texts(units[v]) : a \notin {y.start, y.start + b}
  <2>1. \A v \in Units : \A y \in Range(units[v].splits) : ~Reaches(y)
    BY <1>1, <1>6 DEF Reaches, Texts
  <2>2. AtTarget(unit) = None
    BY <1>1, <2>1, AtTargetIs DEF Range
  <2>3. Anywhere = None
    <3> SUFFICES ASSUME NEW u \in Units, AtTarget(u) # None
                 PROVE  FALSE
      BY AnywhereIs
    <3> QED
      BY <2>1, AtTargetIs DEF Range
  <2>4. Callee = None
    BY <1>3, <2>2, <2>3, CalleeIs
  <2>5. AtAddress(a) = {}
    <3> SUFFICES ASSUME NEW u \in Units, Base(u) # 0, NEW y \in Functions(u), y.start = a - Base(u)
                 PROVE  FALSE
      BY DEF AtAddress, Starting
    <3>1. u = unit
      BY <1>1, <1>2 DEF AllWellFormed, WellFormed, OneExecutable, Base, Units
    <3>2. y.start \in Nat
      BY SplitIs DEF Functions, Texts
    <3> QED
      BY <1>1, <1>6, <3>1, <3>2 DEF Functions
  <2> QED
    BY <1>4, <2>4, <2>5, NoneAssumption DEF CalleeFits
<1> QED
  BY <1>2, <1>5, <1>6

\* A call by an absolute symbol: what relocating leaves in it is the offset of no
\* function of the module, and only the function meant is at the symbol's address.
LEMMA AbsoluteCall ==
    ASSUME units \in Projects, AllWellFormed, NEW x, Calling(x), Meant(units[unit], i) # None,
           Meant(units[unit], i).symbol.absolute
    PROVE  CalleeFits(Callee)
<1> DEFINE r == Meant(units[unit], i)
           value == r.symbol.value
           found == Static(value)
<1>1. /\ unit \in Units /\ HeadersKept /\ Offset = 0 /\ i \in Linked(units[unit])
      /\ headers[unit] = Headers(units[unit]) /\ Target = Relocated(r)
      /\ value \in Nat /\ r.symbol.name # None
  <2>1. r \in Range(units[unit].relocs) /\ r \in Relocation
    BY CallFacts
  <2>2. r.symbol.name # None
    BY <2>1, UnitIs DEF Calling, IsUnit
  <2> QED
    BY <2>1, <2>2, CallFacts DEF Calling, Relocation, SymbolRecord
<1>2. units[unit].words[i].field = 0 /\ Target = Word * value
  <2>1. units[unit].words[i].field = 0
    BY <1>1 DEF AllWellFormed, WellFormed, NoStrayRelocations, Units
  <2> QED
    BY <1>1, <2>1, WordAssumption DEF Relocated
<1>3. ASSUME NEW v \in Units, NEW y \in Range(units[v].splits), NEW k \in DOMAIN headers[v],
             y.start + headers[v][k].address = value
      PROVE  /\ y \in Functions(v) /\ Base(v) # 0 /\ y.start = value - Base(v)
  <2>1. headers[v] = Headers(units[v]) /\ k \in DOMAIN Headers(units[v])
    BY <1>1 DEF HeadersKept
  <2>2. headers[v][k] \in Range(Headers(units[v]))
    BY <2>1 DEF Range
  <2>3. y.section = ".text" /\ headers[v][k].name = ".text" /\ headers[v][k].address # 0
    BY <1>1, <1>3, <2>2 DEF AllWellFormed, WellFormed, AbsoluteApart, Units
  <2>4. Base(v) = headers[v][k].address /\ Base(v) \in Nat /\ y.start \in Nat
    BY <2>1, <2>3, TextHeader, BaseIs, SplitIs
  <2> QED
    BY <1>1, <1>3, <2>3, <2>4 DEF Functions, Texts
<1>4. AtTarget(unit) = None
  <2> SUFFICES ASSUME NEW y \in Range(units[unit].splits), Reaches(y)
               PROVE  FALSE
    BY <1>1, AtTargetIs DEF Range
  <2>1. y.start \in Nat /\ y.section = ".text" /\ y.start = Word * value
    BY <1>1, <1>2, SplitIs DEF Reaches
  <2>2. CASE value = 0
    <3>1. /\ section \in DOMAIN headers[unit] /\ headers[unit][section].address = 0
      BY CallFacts DEF Calling, Offset
    <3>2. y.start + headers[unit][section].address = value
      BY <2>1, <2>2, <3>1, WordAssumption
    <3> QED
      BY <1>1, <1>3, <3>1, <3>2, CallFacts
  <2>3. CASE value # 0
    <3>1. units[unit].words[i].field + Word * value # y.start
      BY <1>1, <2>3 DEF AllWellFormed, WellFormed, NoStrayRelocations, Units
    <3>2. Word * value \in Nat
      BY <1>1, WordAssumption
    <3> QED
      BY <1>2, <2>1, <3>1, <3>2
  <2> QED
    BY <2>2, <2>3
<1>5. BySymbol = found
  BY BySymbolIs DEF Calling, SymbolFinds
<1>6. CASE \E v \in Units : \E k \in DOMAIN headers[v] :
              found \in Range(units[v].splits) /\ found.start + headers[v][k].address = value
  <2>1. PICK v \in Units : \E k \in DOMAIN headers[v] :
              found \in Range(units[v].splits) /\ found.start + headers[v][k].address = value
    BY <1>6
  <2>2. found \in Functions(v) /\ Base(v) # 0 /\ found.start = value - Base(v)
    BY <1>3, <2>1
  <2>3. found \notin {None, Nobody} /\ found.name # None
    BY <2>1, SplitIs
  <2>4. Callee = found
    BY <1>4, <1>5, <2>3, CalleeIs
  <2>5. found.name \in AtAddress(value)
    BY <2>2 DEF AtAddress, Starting
  <2>6. Meaning(unit, i) = AtAddress(value)
    BY DEF Meaning
  <2> QED
    BY <2>3, <2>4, <2>5, <2>6 DEF CalleeFits
<1>7. CASE /\ found = Nobody
           /\ \A v \in Units : \A k \in DOMAIN headers[v] : \A y \in Range(units[v].splits) :
                 y.start + headers[v][k].address # value
  <2>1. Callee = Nobody
    BY <1>4, <1>5, <1>7, NoneAssumption, CalleeIs
  <2>2. ASSUME NEW v \in 1 .. unit, Base(v) # 0, NEW y \in Functions(v), y.start = value - Base(v)
        PROVE  FALSE
    <3>1. v \in Units /\ headers[v] = Headers(units[v])
      BY <1>1, UnitIs DEF HeadersKept, Calling
    <3>2. PICK k \in DOMAIN Headers(units[v]) : Headers(units[v])[k].name = ".text"
      BY <2>2, <3>1, BaseIs
    <3>3. Headers(units[v])[k].address = Base(v) /\ Base(v) \in Nat
      BY <3>1, <3>2, TextHeader, BaseIs
    <3>4. y \in Range(units[v].splits) /\ y.start + Base(v) = value
      BY <1>1, <2>2, <3>1, <3>3, SplitIs DEF Functions, Texts
    <3> QED
      BY <1>7, <3>1, <3>2, <3>3, <3>4
  <2>3. \A v \in 1 .. unit : Base(v) # 0 => Starting(v, value - Base(v)) = {}
    BY <2>2 DEF Starting
  <2> QED
    BY <2>1, <2>3, NoneAssumption DEF CalleeFits
<1> QED
  BY <1>1, <1>6, <1>7, StaticIs

\* Words added to a field.
LEMMA WordsAdded ==
    ASSUME NEW n \in Nat, NEW v \in Nat
    PROVE  n + Word * v \in Nat /\ (v = 0 => n + Word * v = n)
<1>1. Word \in Nat
  BY WordAssumption
<1>2. Word * v \in Nat /\ (v = 0 => Word * v = 0)
  BY <1>1
<1> QED
  BY <1>2

\* A call inside a module, by its section or by the name of the function.
LEMMA LocalCall ==
    ASSUME units \in Projects, AllWellFormed, NEW x, Calling(x), Meant(units[unit], i) # None,
           ~Meant(units[unit], i).symbol.absolute
    PROVE  CalleeFits(Callee)
<1> DEFINE r == Meant(units[unit], i)
           value == r.symbol.value
           field == units[unit].words[i].field
           left == field + Word * value
           meant == field + value
<1>1. /\ unit \in Units /\ Offset = 0 /\ i \in Linked(units[unit])
      /\ Target = left /\ value \in Nat /\ field \in Nat
      /\ r.symbol.defined
  <2>1. r \in Range(units[unit].relocs) /\ r \in Relocation
    BY CallFacts
  <2>2. r.symbol.defined
    BY <2>1 DEF Calling, AllWellFormed, WellFormed, NoImports, Units
  <2> QED
    BY <2>1, <2>2, CallFacts DEF Calling, Relocation, SymbolRecord, Relocated
<1>2. /\ IF r.symbol.name = None THEN value = 0 ELSE field = 0
      /\ value # 0 => \A y \in Range(units[unit].splits) : left # y.start
      /\ \/ \E y \in Texts(units[unit]) : y.start = meant
         \/ \A v \in Units : \A y \in Range(units[v].splits) : left # y.start
  BY <1>1 DEF AllWellFormed, WellFormed, NoStrayRelocations, Units
<1>3. r.symbol.name # None =>
         \A y \in Range(units[unit].splits) :
            y.name = r.symbol.name <=> y.section = ".text" /\ y.start = value
  BY <1>1 DEF AllWellFormed, WellFormed, SymbolsNamed, Units
<1>4. left \in Nat /\ meant \in Nat /\ (value = 0 => left = meant /\ left = field)
  <2> HIDE DEF value, field
  <2>1. left \in Nat /\ (value = 0 => left = field)
    BY <1>1, WordsAdded
  <2>2. meant \in Nat /\ (value = 0 => meant = field)
    BY <1>1
  <2> QED
    BY <2>1, <2>2
<1>5. ASSUME NEW u \in Units, NEW y \in Range(units[u].splits)
      PROVE  Reaches(y) <=> y.section = ".text" /\ y.start = left
  <2>1. y.start \in Nat
    BY SplitIs
  <2> HIDE DEF left
  <2> QED
    BY <1>1, <2>1 DEF Reaches
<1>6. Meaning(unit, i) = Starting(unit, meant)
  BY <1>1 DEF Meaning
<1>7. BySymbol = ByName(r.symbol)
  BY BySymbolIs DEF Calling, SymbolFinds
<1> HIDE DEF left, meant
<1>8. ASSUME NEW y \in Range(units[unit].splits), y.section = ".text", y.start = meant
      PROVE  y \notin {None, Nobody} /\ y.name # None /\ y.name \in Meaning(unit, i)
  <2>1. y \notin {None, Nobody} /\ y.name # None
    BY <1>1, SplitIs
  <2>2. y.name \in Starting(unit, meant)
    BY <1>8 DEF Starting, Functions, Texts
  <2> QED
    BY <1>6, <2>1, <2>2
<1>9. CASE AtTarget(unit) # None
  <2>1. PICK k \in DOMAIN units[unit].splits :
           AtTarget(unit) = units[unit].splits[k] /\ Reaches(units[unit].splits[k])
    BY <1>1, <1>9, AtTargetIs
  <2> DEFINE z == units[unit].splits[k]
  <2>2. z \in Range(units[unit].splits) /\ z.section = ".text" /\ z.start = left
    BY <1>1, <1>5, <2>1 DEF Range
  <2>3. z.start = meant
    BY <1>2, <1>4, <2>2
  <2> QED
    BY <1>8, <1>9, <2>1, <2>2, <2>3, CalleeIs DEF CalleeFits
<1>10. CASE AtTarget(unit) = None
  <2>1. \A y \in Range(units[unit].splits) : ~(y.section = ".text" /\ y.start = left)
    <3> SUFFICES ASSUME NEW y \in Range(units[unit].splits), Reaches(y)
                 PROVE  FALSE
      BY <1>1, <1>5
    <3>1. PICK j \in DOMAIN units[unit].splits : y = units[unit].splits[j]
      BY DEF Range
    <3>2. \A n \in DOMAIN units[unit].splits : units[unit].splits[n] # None
      BY <1>1, SplitIs DEF Range
    <3> QED
      BY <1>1, <1>10, <3>1, <3>2, AtTargetIs
  <2>2. CASE \E y \in Texts(units[unit]) : y.start = meant
    <3>1. PICK y \in Range(units[unit].splits) : y.section = ".text" /\ y.start = meant
      BY <2>2 DEF Texts
    <3>2. value # 0 /\ r.symbol.name # None /\ field = 0 /\ meant = value
      BY <1>1, <1>2, <1>4, <2>1, <3>1 DEF meant
    <3>3. Refers(r.symbol, y)
      BY <1>3, <3>1, <3>2 DEF Refers
    <3>4. ByName(r.symbol) \in Range(units[unit].splits) /\ Refers(r.symbol, ByName(r.symbol))
      BY <1>1, <3>3, ByNameIs
    <3> DEFINE z == ByName(r.symbol)
    <3>5. z.name = r.symbol.name
      BY <1>1, <1>2, <3>2, <3>4 DEF Refers
    <3>6. z.section = ".text" /\ z.start = meant
      BY <1>3, <3>2, <3>4, <3>5
    <3>7. Callee = z
      BY <1>7, <1>8, <1>10, <3>4, <3>6, CalleeIs
    <3> QED
      BY <1>8, <3>4, <3>6, <3>7 DEF CalleeFits
  <2>3. CASE ~\E y \in Texts(units[unit]) : y.start = meant
    <3>1. \A v \in Units : \A y \in Range(units[v].splits) : left # y.start
      BY <1>2, <2>3
    <3>2. Meaning(unit, i) = {}
      BY <1>6, <2>3 DEF Starting, Functions
    <3>3. ByName(r.symbol) = None
      <4> SUFFICES ASSUME NEW y \in Range(units[unit].splits), Refers(r.symbol, y)
                   PROVE  FALSE
        BY <1>1, ByNameIs
      <4>1. y.name = r.symbol.name
        BY <1>1, <3>1 DEF Refers
      <4>2. r.symbol.name # None
        BY <1>1, <4>1, SplitIs
      <4>3. y \in Texts(units[unit]) /\ y.start = value /\ meant = value
        BY <1>1, <1>2, <1>3, <4>1, <4>2 DEF Texts, meant
      <4> QED
        BY <2>3, <4>3
    <3>4. Anywhere = None
      <4> SUFFICES ASSUME NEW u \in Units, AtTarget(u) # None
                   PROVE  FALSE
        BY AnywhereIs
      <4> QED
        BY <1>5, <3>1, AtTargetIs DEF Range
    <3>5. Callee = None
      BY <1>7, <1>10, <3>3, <3>4, CalleeIs
    <3> QED
      BY <3>2, <3>5, NoneAssumption DEF CalleeFits
  <2> QED
    BY <2>2, <2>3
<1> QED
  BY <1>9, <1>10

\* Whatever a call is, the searches find what it means.
LEMMA CallResolved ==
    ASSUME units \in Projects, AllWellFormed, NEW x, Calling(x)
    PROVE  CalleeFits(Callee) /\ i \in Jals(units[unit])
BY PlainCall, AbsoluteCall, LocalCall, CallFacts

-----------------------------------------------------------------------------
(* The invariant. *)

\* Where the linker is, and that it has gone through all units in the end.
Places ==
    /\ section \in Nat /\ split \in Nat
    /\ pc \in {"split", "emit", "crashed"} => Processed(headers[unit][section])
    /\ pc = "emit" => i \in Nat /\ This.start =< i
    /\ pc \in {"tables", "done"} => unit = Len(units)

AsRead(x) == \A p \in x.start .. x.end - 1 : image[unit][p] = units[unit].words[p]

\* Code is relocated once: the split being emitted has been, those that are still
\* to be emitted have not.
ImagesKept ==
    /\ \A u \in Units : /\ DOMAIN image[u] = DOMAIN units[u].words
                        /\ unit < u \/ (u = unit /\ pc = "load") => image[u] = units[u].words
    /\ pc = "section" => \A k \in DOMAIN headers[unit] :
          section =< k /\ Processed(headers[unit][k]) => image[unit] = units[unit].words
    /\ pc \in {"split", "emit"} => \A j \in DOMAIN units[unit].splits :
          Emitted(units[unit].splits[j]) /\ (split < j \/ (split = j /\ pc = "split"))
              => AsRead(units[unit].splits[j])
    /\ pc = "emit" => \A p \in This.start .. This.end - 1 : image[unit][p] = Moved(unit, p)

CaseOf(u, x) == <<Base(u) + x.start, x.name>>

\* The cases of the tables are functions of the executable, at their addresses.
CasesKnown == \A c \in cases : \E u \in Units : \E x \in Functions(u) : Base(u) # 0 /\ c = CaseOf(u, x)

\* The part of TypeOK about where the linker is, and the part about what it has made.
Position ==
    /\ pc \in {"load", "section", "split", "emit", "tables", "done", "crashed"}
    /\ unit \in Units
    /\ pc \in {"split", "emit", "crashed"} => section \in DOMAIN headers[unit]
    /\ pc \in {"emit", "crashed"} => split \in DOMAIN units[unit].splits /\ Emitted(This)
    /\ DOMAIN image = Units
Products ==
    /\ \A c \in calls : c.from[1] \in Units /\ c.from[2] \in Jals(units[c.from[1]])
    /\ \A x \in injected : x.at[1] = x.index[1] /\ x.offset \in 0 .. Half * Half - 1
    /\ failed \in Seq(Nat)

LinkerInv == /\ units \in Projects /\ Position /\ Products
             /\ HeadersKept /\ Places /\ ImagesKept
             /\ CallsResolved /\ CasesKnown /\ StopsOnlyAtUnknown

\* The two parts of TypeOK.
LEMMA TypesAre == Position /\ Products <=> TypeOK
BY DEF Position, Products, TypeOK

\* What only depends on the units stays.
LEMMA Unmoved ==
    ASSUME UNCHANGED units
    PROVE  /\ Units' = Units
           /\ \A u : Base(u)' = Base(u) /\ Functions(u)' = Functions(u)
           /\ \A u, p : Moved(u, p)' = Moved(u, p)
           /\ \A u, p : Meaning(u, p)' = Meaning(u, p)
<1>1. Units' = Units /\ \A u : Base(u)' = Base(u) /\ Functions(u)' = Functions(u)
  BY DEF Units, Base, Functions
<1>2. \A u, p : Moved(u, p)' = Moved(u, p)
  BY DEF Moved, AtOffset, Relocs, First
<1>3. \A u, p : Meaning(u, p)' = Meaning(u, p)
  <2>1. \A u, o : Starting(u, o)' = Starting(u, o)
    BY <1>1 DEF Starting
  <2>2. \A a : AtAddress(a)' = AtAddress(a)
    BY <1>1, <2>1 DEF AtAddress
  <2>3. \A n : Named(n)' = Named(n)
    BY <1>1 DEF Named
  <2> QED
    BY <2>1, <2>2, <2>3 DEF Meaning
<1> QED
  BY <1>1, <1>2, <1>3

\* Calls resolved stay resolved.
LEMMA CallsStay ==
    ASSUME CallsResolved, UNCHANGED <<units, calls>>
    PROVE  CallsResolved'
BY Unmoved DEF CallsResolved

\* Cases stay those of functions.
LEMMA CasesStay ==
    ASSUME CasesKnown, UNCHANGED <<units, cases>>
    PROVE  CasesKnown'
BY Unmoved DEF CasesKnown, CaseOf

\* What has been made keeps its type.
LEMMA ProductsStay ==
    ASSUME Products, UNCHANGED <<units, calls, injected, failed>>
    PROVE  Products'
BY Unmoved DEF Products

\* It holds before the first unit is loaded.
LEMMA LinkerInit == AllWellFormed /\ Init => LinkerInv
<1> SUFFICES ASSUME AllWellFormed, Init
             PROVE  LinkerInv
  OBVIOUS
<1> USE DEF Init
<1>1. units \in Projects /\ Products /\ CallsResolved /\ CasesKnown /\ StopsOnlyAtUnknown
  BY DEF Products, CallsResolved, CasesKnown, StopsOnlyAtUnknown
<1>2. 1 \in Units /\ Units \subseteq Nat /\ Units = DOMAIN units
  <2>1. DOMAIN units = 1 .. Len(units) /\ units # <<>> /\ Len(units) \in Nat
    BY ProjectsAssumption
  <2> QED
    BY <2>1 DEF Units
<1>3. Position
  BY <1>2 DEF Position
<1>4. HeadersKept
  BY <1>2 DEF HeadersKept
<1>5. Places /\ ImagesKept
  BY <1>2 DEF Places, ImagesKept
<1> QED
  BY <1>1, <1>3, <1>4, <1>5 DEF LinkerInv

-----------------------------------------------------------------------------
(* The steps of the driver. *)

\* What has been made stays while the driver moves.
LEMMA MadeStays ==
    ASSUME LinkerInv, UNCHANGED <<units, calls, injected, failed, cases>>, pc' # "crashed"
    PROVE  units' \in Projects /\ Products' /\ CallsResolved' /\ CasesKnown' /\ StopsOnlyAtUnknown'
BY CallsStay, CasesStay, ProductsStay DEF LinkerInv, StopsOnlyAtUnknown

\* The headers of a unit are read while its code is as in the file.
LEMMA LoadKeeps == ASSUME AllWellFormed, LinkerInv, Load
                   PROVE  LinkerInv'
<1>1. /\ UNCHANGED <<units, unit, split, i, image, calls, injected, failed, cases>>
      /\ pc = "load" /\ pc' = "section" /\ section' = 1
      /\ headers' = [headers EXCEPT ![unit] = Headers(units[unit])]
  BY DEF Load, tables
<1>2. unit \in Units /\ Units' = Units /\ Units \subseteq Nat
  BY <1>1, Unmoved, UnitIs DEF LinkerInv, Position
<1>3. Position'
  BY <1>1, <1>2 DEF LinkerInv, Position
<1>4. HeadersKept'
  BY <1>1, <1>2 DEF LinkerInv, HeadersKept
<1>5. Places'
  BY <1>1 DEF LinkerInv, Places
<1>6. ImagesKept'
  BY <1>1, <1>2 DEF LinkerInv, ImagesKept
<1> QED
  BY <1>1, <1>3, <1>4, <1>5, <1>6, MadeStays DEF LinkerInv

\* Passing over a section touches no code.
LEMMA PassKeeps == ASSUME AllWellFormed, LinkerInv, PassSection
                   PROVE  LinkerInv'
<1>1. /\ UNCHANGED <<units, pc, unit, split, i, headers, image, calls, injected, failed, cases>>
      /\ pc = "section" /\ section' = section + 1
  BY DEF PassSection, tables
<1>2. Units' = Units /\ unit \in Units /\ section \in Nat
  BY <1>1, Unmoved DEF LinkerInv, Position, Places
<1>3. Position' /\ HeadersKept' /\ Places'
  BY <1>1, <1>2 DEF LinkerInv, Position, HeadersKept, Places
<1>4. ImagesKept'
  <2>1. \A k \in DOMAIN headers[unit] : k \in Nat
    BY <1>2, UnitIs DEF LinkerInv, HeadersKept
  <2> QED
    BY <1>1, <1>2, <2>1 DEF LinkerInv, ImagesKept
<1> QED
  BY <1>1, <1>3, <1>4, MadeStays DEF LinkerInv

\* A section is entered before any of its splits is relocated.
LEMMA EnterKeeps == ASSUME AllWellFormed, LinkerInv, EnterSection
                    PROVE  LinkerInv'
<1>1. /\ UNCHANGED <<units, unit, section, i, headers, image, calls, injected, failed, cases>>
      /\ pc = "section" /\ pc' = "split" /\ split' = 1
      /\ section \in DOMAIN headers[unit] /\ Processed(headers[unit][section])
  BY DEF EnterSection, tables
<1>2. Units' = Units /\ unit \in Units /\ section \in Nat
  BY <1>1, Unmoved DEF LinkerInv, Position, Places
<1>3. Position' /\ HeadersKept' /\ Places'
  BY <1>1, <1>2 DEF LinkerInv, Position, HeadersKept, Places
<1>4. ImagesKept'
  <2>1. image[unit] = units[unit].words
    BY <1>1, <1>2 DEF LinkerInv, ImagesKept
  <2> QED
    BY <1>1, <1>2, <2>1 DEF LinkerInv, ImagesKept, AsRead
<1> QED
  BY <1>1, <1>3, <1>4, MadeStays DEF LinkerInv

\* A split that is not emitted is not relocated.
LEMMA SkipKeeps == ASSUME AllWellFormed, LinkerInv, Skip
                   PROVE  LinkerInv'
<1>1. /\ UNCHANGED <<units, pc, unit, section, i, headers, image, calls, injected, failed, cases>>
      /\ pc = "split" /\ split' = split + 1
  BY DEF Skip, tables
<1>2. Units' = Units /\ unit \in Units /\ split \in Nat /\ DOMAIN units[unit].splits \subseteq Nat
  BY <1>1, Unmoved, UnitIs DEF LinkerInv, Position, Places
<1>3. Position' /\ HeadersKept' /\ Places'
  BY <1>1, <1>2 DEF LinkerInv, Position, HeadersKept, Places
<1>4. ImagesKept'
  BY <1>1, <1>2 DEF LinkerInv, ImagesKept, AsRead
<1> QED
  BY <1>1, <1>3, <1>4, MadeStays DEF LinkerInv

\* The splits behind the one just emitted are still as in the file.
LEMMA EndSplitKeeps == ASSUME AllWellFormed, LinkerInv, EndSplit
                       PROVE  LinkerInv'
<1>1. /\ UNCHANGED <<units, unit, section, i, headers, image, calls, injected, failed, cases>>
      /\ pc = "emit" /\ pc' = "split" /\ split' = split + 1
  BY DEF EndSplit, tables
<1>2. Units' = Units /\ unit \in Units /\ split \in Nat /\ DOMAIN units[unit].splits \subseteq Nat
  BY <1>1, Unmoved, UnitIs DEF LinkerInv, Position, Places
<1>3. Position' /\ HeadersKept' /\ Places'
  BY <1>1, <1>2 DEF LinkerInv, Position, HeadersKept, Places
<1>4. ImagesKept'
  BY <1>1, <1>2 DEF LinkerInv, ImagesKept, AsRead
<1> QED
  BY <1>1, <1>3, <1>4, MadeStays DEF LinkerInv

\* A unit has no second section of functions.
LEMMA EndSectionKeeps == ASSUME AllWellFormed, LinkerInv, EndSection
                         PROVE  LinkerInv'
<1>1. /\ UNCHANGED <<units, unit, split, i, headers, image, calls, injected, failed, cases>>
      /\ pc = "split" /\ pc' = "section" /\ section' = section + 1
  BY DEF EndSection, tables
<1>2. Units' = Units /\ unit \in Units /\ section \in Nat
  BY <1>1, Unmoved DEF LinkerInv, Position, Places
<1>3. Position' /\ HeadersKept' /\ Places'
  BY <1>1, <1>2 DEF LinkerInv, Position, HeadersKept, Places
<1>4. ASSUME NEW k \in DOMAIN headers[unit], section + 1 =< k, Processed(headers[unit][k])
      PROVE  FALSE
  <2>1. headers[unit] = Headers(units[unit]) /\ section \in DOMAIN headers[unit]
    BY <1>1, <1>2 DEF LinkerInv, HeadersKept, Position
  <2>2. headers[unit][section].name = ".text" /\ headers[unit][k].name = ".text"
    BY <1>1, <1>4 DEF LinkerInv, Places, Processed
  <2>3. k = section
    BY <1>2, <2>1, <2>2, TextHeader DEF LinkerInv
  <2> QED
    BY <1>2, <1>4, <2>3
<1>5. ImagesKept'
  BY <1>1, <1>2, <1>4 DEF LinkerInv, ImagesKept
<1> QED
  BY <1>1, <1>3, <1>5, MadeStays DEF LinkerInv

\* The next unit is as in the file; the last one ends the driver.
LEMMA EndUnitKeeps == ASSUME AllWellFormed, LinkerInv, EndUnit
                      PROVE  LinkerInv'
<1>1. /\ UNCHANGED <<units, section, split, i, headers, image, calls, injected, failed, cases>>
      /\ pc = "section"
      /\ \/ unit < Len(units) /\ pc' = "load" /\ unit' = unit + 1
         \/ ~(unit < Len(units)) /\ pc' = "tables" /\ unit' = unit
  BY DEF EndUnit, tables
<1>2. /\ Units' = Units /\ unit \in Units /\ section \in Nat
      /\ Units = 1 .. Len(units) /\ Len(units) \in Nat
  BY <1>1, Unmoved, UnitIs DEF LinkerInv, Position, Places
<1>3. Position' /\ Places'
  BY <1>1, <1>2 DEF LinkerInv, Position, Places
<1>4. HeadersKept'
  <2>1. \A u \in Units : u < unit \/ (u = unit /\ pc # "load")
                            <=> u < unit' \/ (u = unit' /\ pc' # "load")
    BY <1>1, <1>2
  <2> QED
    BY <1>1, <1>2, <2>1 DEF LinkerInv, HeadersKept
<1>5. ImagesKept'
  BY <1>1, <1>2 DEF LinkerInv, ImagesKept
<1> QED
  BY <1>1, <1>3, <1>4, <1>5, MadeStays DEF LinkerInv

\* The cases are written when the headers of all units have been read.
LEMMA TablesKeep == ASSUME AllWellFormed, LinkerInv, WriteTables
                    PROVE  LinkerInv'
<1>1. /\ UNCHANGED <<units, unit, section, split, i, headers, image, calls, injected, failed>>
      /\ pc = "tables" /\ pc' = "done" /\ cases' = Cases
  BY DEF WriteTables
<1>2. /\ Units' = Units /\ unit \in Units /\ Units = 1 .. Len(units) /\ Len(units) \in Nat
      /\ unit = Len(units) /\ units \in Projects
  BY <1>1, Unmoved, UnitIs DEF LinkerInv, Position, Places
<1>3. Position' /\ Places' /\ ImagesKept' /\ HeadersKept'
  BY <1>1, <1>2 DEF LinkerInv, Position, Places, ImagesKept, HeadersKept
<1>4. Products' /\ CallsResolved' /\ StopsOnlyAtUnknown'
  BY <1>1, CallsStay, ProductsStay DEF LinkerInv, StopsOnlyAtUnknown
<1>5. ASSUME NEW u \in Units, NEW s \in Range(headers[u]), NEW x \in Range(units[u].splits),
             Tabled(s, x)
      PROVE  /\ x \in Functions(u) /\ Base(u) # 0
             /\ <<s.address + x.start, x.name>> = CaseOf(u, x)
  <2>1. headers[u] = Headers(units[u])
    BY <1>1, <1>2 DEF LinkerInv, HeadersKept
  <2>2. PICK k \in DOMAIN Headers(units[u]) : s = Headers(units[u])[k]
    BY <2>1 DEF Range
  <2>3. s.name = ".text" /\ s.address # 0 /\ x.section = ".text"
    BY <1>5 DEF Tabled
  <2>4. s.address = Base(u)
    BY <1>2, <2>2, <2>3, TextHeader
  <2> QED
    BY <2>3, <2>4 DEF Functions, Texts, CaseOf
<1>6. CasesKnown'
  <2> SUFFICES ASSUME NEW c \in Cases
               PROVE  \E u \in Units : \E x \in Functions(u) : Base(u) # 0 /\ c = CaseOf(u, x)
    BY <1>1, Unmoved DEF CasesKnown, CaseOf
  <2>1. PICK u \in Units : \E s \in Range(headers[u]) : c \in CasesOf(u, s)
    BY DEF Cases, Units
  <2>2. PICK s \in Range(headers[u]) : c \in CasesOf(u, s)
    BY <2>1
  <2>3. PICK x \in Range(units[u].splits) : Tabled(s, x) /\ c = <<s.address + x.start, x.name>>
    BY <2>2 DEF CasesOf
  <2> QED
    BY <1>5, <2>3
<1> QED
  BY <1>1, <1>3, <1>4, <1>6 DEF LinkerInv

\* A split is relocated once, and none that is still to be emitted with it.
LEMMA RelocateKeeps == ASSUME AllWellFormed, LinkerInv, Relocate
                       PROVE  LinkerInv'
<1> DEFINE Code(p) == IF p \in This.start .. This.end - 1 /\ RelocAt(p) # None
                      THEN Apply(image[unit][p], RelocAt(p)) ELSE image[unit][p]
<1>1. /\ UNCHANGED <<units, unit, section, split, headers, calls, injected, failed, cases>>
      /\ pc = "split" /\ pc' = "emit" /\ i' = This.start /\ This' = This
      /\ split \in DOMAIN units[unit].splits /\ Emitted(This)
      /\ image' = [image EXCEPT ![unit] = [p \in DOMAIN image[unit] |-> Code(p)]]
  BY DEF Relocate, tables, This
<1>2. /\ Units' = Units /\ unit \in Units /\ section \in Nat /\ split \in Nat
      /\ DOMAIN image = Units /\ DOMAIN image[unit] = DOMAIN units[unit].words
      /\ units \in Projects /\ DOMAIN units[unit].splits \subseteq Nat
  BY <1>1, Unmoved, UnitIs DEF LinkerInv, Position, Places, ImagesKept
<1>3. /\ \A p \in DOMAIN units[unit].words : image'[unit][p] = Code(p)
      /\ DOMAIN image'[unit] = DOMAIN units[unit].words
      /\ DOMAIN image' = Units
      /\ \A u \in Units : u # unit => image'[u] = image[u]
  BY <1>1, <1>2
<1>4. /\ This \in Functions(unit) /\ This \in Range(units[unit].splits) /\ This.start \in Nat
      /\ This.section = ".text"
  <2>1. This \in Range(units[unit].splits)
    BY <1>1 DEF This, Range
  <2> QED
    BY <1>1, <1>2, <2>1, SplitIs DEF Functions, Texts, Emitted
<1>5. Position' /\ HeadersKept' /\ Places'
  BY <1>1, <1>2, <1>3, <1>4 DEF LinkerInv, Position, HeadersKept, Places
<1> HIDE DEF Code
<1>6. ASSUME NEW j \in DOMAIN units[unit].splits, Emitted(units[unit].splits[j]), split < j,
             NEW p \in units[unit].splits[j].start .. units[unit].splits[j].end - 1
      PROVE  image'[unit][p] = units[unit].words[p]
  <2> DEFINE y == units[unit].splits[j]
  <2>1. y \in Range(units[unit].splits) /\ y.section = ".text"
    BY <1>6 DEF Emitted, Range
  <2>2. This.end =< y.start
    BY <1>1, <1>2, <1>4, <1>6, <2>1 DEF AllWellFormed, WellFormed, InOrder, Units, This
  <2>3. p \in DOMAIN units[unit].words
    BY <1>2, <1>6, <2>1, UnitIs DEF IsUnit
  <2>4. image[unit][p] = units[unit].words[p]
    BY <1>1, <1>6 DEF LinkerInv, ImagesKept, AsRead
  <2>5. y.start \in Nat /\ y.end \in Nat /\ This.end \in Nat
    BY <1>2, <1>4, <2>1, SplitIs
  <2>6. p \notin This.start .. This.end - 1
    BY <1>4, <1>6, <2>2, <2>5
  <2> QED
    BY <1>3, <2>3, <2>4, <2>6 DEF Code
<1>7. ASSUME NEW p \in This.start .. This.end - 1
      PROVE  image'[unit][p] = Moved(unit, p)
  <2>1. p \in DOMAIN units[unit].words
    BY <1>2, <1>4, MovedIs DEF LinkerInv
  <2>2. image[unit][p] = units[unit].words[p]
    BY <1>1, <1>7 DEF LinkerInv, ImagesKept, AsRead, This
  <2>3. RelocAt(p) = AtOffset(unit, p)
    BY DEF RelocAt, AtOffset, First
  <2> QED
    BY <1>3, <2>1, <2>2, <2>3 DEF Code, Moved
<1>8. ImagesKept'
  <2>1. \A u \in Units : /\ DOMAIN image'[u] = DOMAIN units[u].words
                         /\ unit < u => image'[u] = units[u].words
    BY <1>2, <1>3, UnitIs DEF LinkerInv, ImagesKept
  <2>2. \A p \in This.start .. This.end - 1 : image'[unit][p] = Moved(unit, p)'
    BY <1>1, <1>7, Unmoved
  <2>3. \A j \in DOMAIN units[unit].splits :
           Emitted(units[unit].splits[j]) /\ split < j => AsRead(units[unit].splits[j])'
    BY <1>1, <1>6 DEF AsRead
  <2>4. \A j \in DOMAIN units[unit].splits : split = j => ~(pc' = "split")
    BY <1>1
  <2> HIDE DEF Code
  <2> QED
    BY <1>1, <1>2, <2>1, <2>2, <2>3, <2>4 DEF ImagesKept
<1> QED
  BY <1>1, <1>5, <1>8, MadeStays DEF LinkerInv

-----------------------------------------------------------------------------
(* The steps of the emitter. *)

\* What is known of the instruction being emitted.
LEMMA EmitFacts ==
    ASSUME AllWellFormed, LinkerInv, pc = "emit", i < This.end
    PROVE  /\ This \in Functions(unit) /\ i \in This.start .. This.end - 1 /\ i \in Nat
           /\ image[unit][i] = Moved(unit, i) /\ Here \in Instruction
           /\ Here.kind # "plain" => image[unit][i + 1] \in Instruction
           /\ Here.kind = "jal" => Calling(This)
<1>1. /\ units \in Projects /\ unit \in Units /\ HeadersKept /\ i \in Nat /\ This.start =< i
      /\ section \in DOMAIN headers[unit] /\ Processed(headers[unit][section])
      /\ split \in DOMAIN units[unit].splits /\ Emitted(This)
      /\ \A p \in This.start .. This.end - 1 : image[unit][p] = Moved(unit, p)
  BY DEF LinkerInv, Position, Places, ImagesKept
<1>2. This \in Functions(unit) /\ This.start \in Nat /\ This.end \in Nat
  <2>1. This \in Range(units[unit].splits)
    BY <1>1 DEF This, Range
  <2> QED
    BY <1>1, <2>1, SplitIs DEF Functions, Texts, Emitted
<1>3. i \in This.start .. This.end - 1
  BY <1>1, <1>2
<1>4. /\ image[unit][i] = Moved(unit, i) /\ Moved(unit, i) \in Instruction
      /\ Moved(unit, i).kind # "plain" => i + 1 \in This.start .. This.end - 1
  BY <1>1, <1>2, <1>3, MovedIs
<1>5. Here \in Instruction
  BY <1>4 DEF Here
<1>6. Here.kind # "plain" => image[unit][i + 1] \in Instruction
  BY <1>1, <1>2, <1>4, MovedIs DEF Here
<1> QED
  BY <1>1, <1>2, <1>3, <1>4, <1>5, <1>6 DEF Calling

\* Halves of an address.
LEMMA HalfIs == /\ Half * Half \in Nat \ {0}
                /\ \A v, f \in Nat : v + f * Half \in Nat
<1>1. Half \in Nat \ {0}
  BY HalfAssumption DEF Half
<1> QED
  BY <1>1

\* A pointer is an index of a section of its own unit, and an offset.
LEMMA InjectIs ==
    ASSUME units \in Projects, unit \in Units, NEW p, image[unit][p] \in Instruction, NEW a,
           NEW x \in Inject(p, a), x \notin injected
    PROVE  x.at[1] = x.index[1] /\ x.offset \in 0 .. Half * Half - 1
<1> DEFINE r == RelocAt(a)
           n == r.symbol.value + image[unit][p].field * Half
           m == Half * Half
<1>1. r # None /\ x = Pointer(p, r.symbol)
  BY DEF Inject
<1>2. r.symbol.value \in Nat
  <2>1. r = AtOffset(unit, a)
    BY DEF RelocAt, AtOffset, First
  <2>2. PICK k \in DOMAIN Relocs(unit) : r = Relocs(unit)[k]
    BY <1>1, <2>1, AtOffsetIs
  <2>3. r \in Relocation
    BY <2>2, UnitIs DEF Relocs, IsUnit
  <2> QED
    BY <2>3 DEF Relocation, SymbolRecord
<1>3. image[unit][p].field \in Nat
  BY DEF Instruction
<1>4. n \in Nat /\ m \in Nat \ {0}
  BY <1>2, <1>3, HalfIs
<1>5. x = [at |-> <<unit, p>>, index |-> <<unit, Ident[r.symbol.section]>>, offset |-> n % m]
  BY <1>1 DEF Pointer
<1> HIDE DEF n, m
<1>6. n % m \in 0 .. m - 1
  BY <1>4
<1> QED
  BY <1>5, <1>6 DEF m

\* The place of the emitter is that of TypeOK and Places wherever it goes in its split.
LEMMA EmitMoves ==
    ASSUME AllWellFormed, LinkerInv, pc = "emit", i < This.end,
           UNCHANGED <<units, unit, section, split, headers, image, cases>>,
           \/ UNCHANGED pc /\ i' \in {i + 1, i + 2}
           \/ pc' = "crashed" /\ UNCHANGED i
    PROVE  units' \in Projects /\ Position' /\ HeadersKept' /\ Places' /\ ImagesKept' /\ CasesKnown'
<1>1. /\ Units' = Units /\ unit \in Units /\ This' = This /\ i \in Nat /\ This.start \in Nat
      /\ \A p : Moved(unit, p)' = Moved(unit, p)
  <2>1. unit \in Units /\ split \in DOMAIN units[unit].splits /\ units \in Projects
    BY DEF LinkerInv, Position
  <2>2. This \in Range(units[unit].splits)
    BY <2>1 DEF This, Range
  <2> QED
    BY <2>1, <2>2, Unmoved, EmitFacts, SplitIs DEF This
<1>2. Position' /\ HeadersKept'
  BY <1>1 DEF LinkerInv, Position, HeadersKept
<1>3. Places'
  BY <1>1 DEF LinkerInv, Places
<1>4. ImagesKept'
  BY <1>1 DEF LinkerInv, ImagesKept, AsRead
<1> QED
  BY <1>2, <1>3, <1>4, CasesStay DEF LinkerInv

\* Instructions but calls add pointers only.
LEMMA PlainKeeps == ASSUME AllWellFormed, LinkerInv, EmitPlain \/ EmitTransfer
                    PROVE  LinkerInv'
<1>1. /\ pc = "emit" /\ i < This.end /\ pc' = pc /\ i' \in {i + 1, i + 2}
      /\ UNCHANGED <<units, unit, section, split, headers, image, calls, failed, cases>>
  BY DEF EmitPlain, EmitTransfer, Emit, tables
<1>2. \E p, a : injected' = Inject(p, a) /\ image[unit][p] \in Instruction
  <2>1. CASE EmitPlain
    BY <1>1, <2>1, EmitFacts DEF EmitPlain, Here
  <2>2. CASE EmitTransfer
    BY <1>1, <2>2, EmitFacts DEF EmitTransfer, Emit
  <2> QED
    BY <2>1, <2>2
<1>3. Products'
  <2>1. \A x \in injected' : x.at[1] = x.index[1] /\ x.offset \in 0 .. Half * Half - 1
    BY <1>2, InjectIs DEF LinkerInv, Position, Products
  <2> QED
    BY <1>1, <2>1, Unmoved DEF LinkerInv, Products
<1>4. CallsResolved' /\ StopsOnlyAtUnknown'
  BY <1>1, CallsStay DEF LinkerInv, StopsOnlyAtUnknown
<1> QED
  BY <1>1, <1>3, <1>4, EmitMoves DEF LinkerInv

\* A call emitted is one of those its jal means.
LEMMA CallKeeps == ASSUME AllWellFormed, LinkerInv, EmitCall \/ FailJump
                   PROVE  LinkerInv'
<1>1. /\ pc = "emit" /\ i < This.end /\ pc' = pc /\ i' \in {i + 1, i + 2} /\ Here.kind = "jal"
      /\ UNCHANGED <<units, unit, section, split, headers, image, cases>>
  BY DEF EmitCall, FailJump, Emit, tables
<1>2. /\ CalleeFits(Callee) /\ i \in Jals(units[unit]) /\ unit \in Units
      /\ Target \in Nat /\ image[unit][i + 1] \in Instruction
  BY <1>1, EmitFacts, CallResolved DEF LinkerInv, Position, Target, Instruction
<1> DEFINE to == IF Callee = None THEN None ELSE Callee.name
           new == [from |-> <<unit, i>>, to |-> to]
<1>3. /\ calls' = calls \cup {new} /\ (Callee = None \/ Callee \notin {None, Nobody})
      /\ failed' = failed \/ failed' = Append(failed, Target)
      /\ injected' = Inject(i + 1, i)
  BY DEF EmitCall, FailJump
<1>4. new.from = <<unit, i>> /\ new.to = to
  OBVIOUS
<1>5. IF to = None THEN Meaning(unit, i) = {} ELSE to \in Meaning(unit, i)
  BY <1>2, <1>3 DEF CalleeFits
<1> HIDE DEF new, to
<1>6. CallsResolved'
  <2> SUFFICES ASSUME NEW c \in calls'
               PROVE  IF c.to = None THEN Meaning(c.from[1], c.from[2]) = {}
                      ELSE c.to \in Meaning(c.from[1], c.from[2])
    BY <1>1, Unmoved DEF CallsResolved
  <2>1. CASE c \in calls
    BY <2>1 DEF LinkerInv, CallsResolved
  <2>2. CASE c = new
    BY <1>4, <1>5, <2>2
  <2> QED
    BY <1>3, <2>1, <2>2
<1>7. Products'
  <2>1. \A x \in injected' : x.at[1] = x.index[1] /\ x.offset \in 0 .. Half * Half - 1
    BY <1>2, <1>3, InjectIs DEF LinkerInv, Products
  <2>2. \A c \in calls' : c.from[1] \in Units /\ c.from[2] \in Jals(units[c.from[1]])
    BY <1>2, <1>3, <1>4 DEF LinkerInv, Products
  <2>3. failed' \in Seq(Nat)
    <3>1. failed \in Seq(Nat)
      BY DEF LinkerInv, Products
    <3> QED
      BY <1>2, <1>3, <3>1
  <2> QED
    BY <1>1, <2>1, <2>2, <2>3, Unmoved DEF Products, Half
<1>8. StopsOnlyAtUnknown'
  BY <1>1 DEF StopsOnlyAtUnknown
<1> QED
  BY <1>1, <1>6, <1>7, <1>8, EmitMoves DEF LinkerInv

\* The linker stops where the search for an address found nothing.
LEMMA CrashKeeps == ASSUME AllWellFormed, LinkerInv, Crash
                    PROVE  LinkerInv'
<1>1. /\ pc = "emit" /\ i < This.end /\ pc' = "crashed" /\ Here.kind = "jal" /\ Callee = Nobody
      /\ UNCHANGED <<units, unit, section, split, i, headers, image, calls, injected, failed, cases>>
  BY DEF Crash, Emit, tables
<1>2. CalleeFits(Callee)
  BY <1>1, EmitFacts, CallResolved DEF LinkerInv
<1>3. StopsOnlyAtUnknown'
  <2>1. \A u, o : Starting(u, o)' = Starting(u, o)
    BY <1>1, Unmoved DEF Starting
  <2> QED
    BY <1>1, <1>2, <2>1, Unmoved DEF StopsOnlyAtUnknown, CalleeFits
<1> QED
  BY <1>1, <1>3, EmitMoves, CallsStay, ProductsStay DEF LinkerInv

\* Stuttering keeps everything.
LEMMA StutterKeeps == ASSUME LinkerInv, UNCHANGED vars
                      PROVE  LinkerInv'
<1>1. UNCHANGED <<units, pc, unit, section, split, i, headers, image, calls, injected, failed, cases>>
  BY DEF vars, place, tables
<1>2. Units' = Units /\ This' = This
  BY <1>1, Unmoved DEF This
<1>3. Position' /\ HeadersKept' /\ Places' /\ ImagesKept'
  BY <1>1, <1>2, Unmoved DEF LinkerInv, Position, HeadersKept, Places, ImagesKept, AsRead
<1>4. StopsOnlyAtUnknown'
  <2>1. \A u, o : Starting(u, o)' = Starting(u, o)
    BY <1>1, Unmoved DEF Starting
  <2> QED
    BY <1>1, <2>1, Unmoved DEF LinkerInv, StopsOnlyAtUnknown
<1> QED
  BY <1>1, <1>3, <1>4, CallsStay, CasesStay, ProductsStay DEF LinkerInv

\* Every step keeps the invariant.
LEMMA LinkerStep == AllWellFormed /\ LinkerInv /\ [Next]_vars => LinkerInv'
BY LoadKeeps, PassKeeps, EnterKeeps, SkipKeeps, RelocateKeeps, EndSplitKeeps, EndSectionKeeps,
   EndUnitKeeps, TablesKeep, PlainKeeps, CallKeeps, CrashKeeps, StutterKeeps DEF Next

\* In every behaviour.
THEOREM LinkerInvariant == ASSUME AllWellFormed
                           PROVE  Spec => []LinkerInv
<1>1. AllWellFormed /\ Init => LinkerInv
  BY LinkerInit
<1>2. AllWellFormed /\ LinkerInv /\ [Next]_vars => LinkerInv'
  BY LinkerStep
<1> QED
  BY <1>1, <1>2, PTL DEF Spec

-----------------------------------------------------------------------------
(* Properties. *)

\* The unit, the section and the split the linker works on are always there, no
\* pointer leaves its width, and what a failed jump records is a number.
THEOREM TypeCorrect == ASSUME AllWellFormed
                       PROVE  Spec => []TypeOK
<1>1. LinkerInv => TypeOK
  BY TypesAre DEF LinkerInv
<1> QED
  BY <1>1, LinkerInvariant, PTL

\* Every jal that is emitted calls a function that its instruction and relocation
\* mean, whichever search of find_jump_to_function found it; a jump is only left out
\* when no unit has such a function.
THEOREM CallsReach == ASSUME AllWellFormed
                      PROVE  Spec => []CallsResolved
<1>1. LinkerInv => CallsResolved
  BY DEF LinkerInv
<1> QED
  BY <1>1, LinkerInvariant, PTL

\* The linker stops at no call but one to an address no function loaded so far has.
THEOREM StopsAtUnknown == ASSUME AllWellFormed
                          PROVE  Spec => []StopsOnlyAtUnknown
<1>1. LinkerInv => StopsOnlyAtUnknown
  BY DEF LinkerInv
<1> QED
  BY <1>1, LinkerInvariant, PTL

\* Two functions of the executable at one address are one.
LEMMA OneCase ==
    ASSUME units \in Projects, AllWellFormed,
           NEW u \in Units, NEW x \in Functions(u), Base(u) # 0,
           NEW v \in Units, NEW y \in Functions(v), Base(v) # 0,
           Base(u) + x.start = Base(v) + y.start
    PROVE  x = y
<1>1. u = v
  BY DEF AllWellFormed, WellFormed, OneExecutable, Base, Units
<1>2. x.start \in Nat /\ y.start \in Nat /\ Base(u) \in Nat
  BY BaseIs, SplitIs DEF Functions, Texts
<1> QED
  BY <1>1, <1>2, FunctionsApart

\* FunctionLookup and jalr reach the function a jal to the same address calls, and no
\* address has two cases.
THEOREM DirectAndIndirect == ASSUME AllWellFormed
                             PROVE  Spec => []DirectAndIndirectAgree
<1>1. LinkerInv => DirectAndIndirectAgree
  <2> SUFFICES ASSUME LinkerInv
               PROVE  DirectAndIndirectAgree
    OBVIOUS
  <2>1. units \in Projects /\ CasesKnown /\ CallsResolved /\ Products
    BY DEF LinkerInv
  <2>2. ASSUME NEW c \in cases, NEW d \in cases, c[1] = d[1]
        PROVE  c = d
    <3>1. PICK u \in Units : \E x \in Functions(u) : Base(u) # 0 /\ c = CaseOf(u, x)
      BY <2>1 DEF CasesKnown
    <3>2. PICK x \in Functions(u) : Base(u) # 0 /\ c = CaseOf(u, x)
      BY <3>1
    <3>3. PICK v \in Units : \E y \in Functions(v) : Base(v) # 0 /\ d = CaseOf(v, y)
      BY <2>1 DEF CasesKnown
    <3>4. PICK y \in Functions(v) : Base(v) # 0 /\ d = CaseOf(v, y)
      BY <3>3
    <3>5. Base(u) + x.start = Base(v) + y.start
      BY <2>2, <3>2, <3>4 DEF CaseOf
    <3>6. x = y
      BY <2>1, <3>2, <3>4, <3>5, OneCase
    <3> QED
      BY <3>2, <3>4, <3>5, <3>6 DEF CaseOf
  <2>3. ASSUME NEW c \in calls, NEW d \in cases, d[1] = Destination(c.from[1], c.from[2])
        PROVE  c.to = d[2]
    <3> DEFINE u == c.from[1]
               p == c.from[2]
               r == Meant(units[u], p)
    <3>1. u \in Units /\ p \in Jals(units[u])
      BY <2>1 DEF Products
    <3>2. PICK v \in Units : \E y \in Functions(v) : Base(v) # 0 /\ d = CaseOf(v, y)
      BY <2>1 DEF CasesKnown
    <3>3. PICK y \in Functions(v) : Base(v) # 0 /\ d = CaseOf(v, y)
      BY <3>2
    <3>4. Base(v) \in Nat /\ y.start \in Nat
      BY <2>1, BaseIs, SplitIs DEF Functions, Texts
    <3> DEFINE a == Base(v) + y.start
    <3>5. a # 0 /\ d[1] = a /\ d[2] = y.name
      BY <3>3, <3>4 DEF CaseOf
    <3>6. Meaning(u, p) = AtAddress(a)
      BY <2>3, <3>5 DEF Destination, Meaning
    <3>7. y.name \in AtAddress(a)
      <4>1. y.name \in Starting(v, a - Base(v))
        BY <3>4 DEF Starting
      <4> QED
        BY <3>3, <4>1 DEF AtAddress
    <3>8. c.to \in AtAddress(a)
      BY <2>1, <3>6, <3>7 DEF CallsResolved
    <3>9. PICK w \in Units : Base(w) # 0 /\ c.to \in Starting(w, a - Base(w))
      BY <3>8 DEF AtAddress
    <3>10. PICK z \in Functions(w) : z.start = a - Base(w) /\ c.to = z.name
      BY <3>9 DEF Starting
    <3>11. Base(w) \in Nat /\ z.start \in Nat
      BY <2>1, BaseIs, SplitIs DEF Functions, Texts
    <3>12. Base(w) + z.start = Base(v) + y.start
      BY <3>4, <3>10, <3>11
    <3>13. z = y
      BY <2>1, <3>3, <3>9, <3>12, OneCase
    <3> QED
      BY <3>5, <3>10, <3>13
  <2> QED
    BY <2>2, <2>3 DEF DirectAndIndirectAgree
<1> QED
  BY <1>1, LinkerInvariant, PTL

-----------------------------------------------------------------------------
(* Pointers to data.  Every upper half that has been passed was injected,   *)
(* unless it is in the slot of a call, and nothing else was; code that has  *)
(* been passed stays as relocated, and the tables number sections.          *)

\* The instruction at p of split j of unit u has been emitted, if any of them is.
Passed(u, j, p) ==
    \/ u < unit \/ pc \in {"tables", "done"}
    \/ /\ u = unit /\ pc \in {"section", "split", "emit"}
       /\ \/ \E n \in DOMAIN headers[unit] : n < section /\ Processed(headers[unit][n])
          \/ pc \in {"split", "emit"} /\ j < split
          \/ pc = "emit" /\ j = split /\ p < i

PointerTo(u, hi) ==
    [at |-> <<u, hi.offset>>, index |-> <<u, Ident[hi.symbol.section]>>,
     offset |-> (hi.symbol.value + Moved(u, hi.offset).field * Half) % (Half * Half)]

\* In a unit with pointers, what has been emitted is as relocated.
CodeMoved ==
    \A u \in Units : \A j \in DOMAIN units[u].splits :
        LET x == units[u].splits[j] IN
        Uppers(units[u]) # {} /\ Emitted(x) =>
            \A p \in x.start .. x.end - 1 : Passed(u, j, p) => image[u][p] = Moved(u, p)

UppersInjected ==
    \A u \in Units : \A hi \in Uppers(units[u]), j \in DOMAIN units[u].splits :
        LET x == units[u].splits[j] IN
        Emitted(x) /\ hi.offset \in x.start .. x.end - 1 /\ Passed(u, j, hi.offset)
                /\ ~InCallSlot(u, hi.offset)
            => PointerTo(u, hi) \in injected

InjectedKnown ==
    \A y \in injected : \E u \in Units : \E hi \in Uppers(units[u]) :
        y = PointerTo(u, hi) /\ ~InCallSlot(u, hi.offset)

\* The instruction to be emitted is in the slot of no transfer of its function.
Aligned ==
    pc = "emit" /\ i - 1 \in This.start .. This.end - 1 => units[unit].words[i - 1].kind = "plain"

TablesWritten == pc = "done" => indices = Indices /\ blobs = Blobs

PointersInv == /\ section > 0 /\ split > 0 /\ Aligned
               /\ CodeMoved /\ UppersInjected /\ InjectedKnown /\ TablesWritten

\* The sections and splits of a unit are numbered from one.
LEMMA NumberedFromOne ==
    ASSUME units \in Projects, NEW u \in Units
    PROVE  /\ \E n \in Nat : DOMAIN Headers(units[u]) = 1 .. n
           /\ \E n \in Nat : DOMAIN units[u].splits = 1 .. n
<1>1. /\ units[u].sections \in Seq(SectionHeader) /\ units[u].splits \in Seq(SplitRecord)
  BY UnitIs DEF IsUnit
<1>2. /\ DOMAIN units[u].sections = 1 .. Len(units[u].sections)
      /\ DOMAIN units[u].splits = 1 .. Len(units[u].splits)
      /\ Len(units[u].sections) \in Nat /\ Len(units[u].splits) \in Nat
  BY <1>1
<1>3. DOMAIN Headers(units[u]) = DOMAIN units[u].sections \/ DOMAIN Headers(units[u]) = 1 .. 0
  <2>1. CASE units[u].format = "elf"
    BY <2>1, Zenon DEF Headers
  <2>2. CASE units[u].format = "xff"
    BY <2>2, Zenon DEF Headers
  <2>3. CASE units[u].format \notin {"elf", "xff"}
    <3>1. Headers(units[u]) = <<>>
      BY <2>3, Zenon DEF Headers
    <3> QED
      BY <3>1
  <2> QED
    BY <2>1, <2>2, <2>3
<1> QED
  BY <1>2, <1>3

\* An upper half is that of a plain instruction, and of data in a section of its unit.
LEMMA UpperIs ==
    ASSUME units \in Projects, AllWellFormed, NEW u \in Units, NEW hi \in Uppers(units[u])
    PROVE  /\ units[u].format = "xff" /\ hi \in Range(Relocs(u)) /\ hi.section = ".text"
           /\ hi.type = "high16" /\ ~hi.symbol.absolute
           /\ units[u].words[hi.offset].kind = "plain" /\ hi.symbol.section \in KnownNames
           /\ \E s \in Range(units[u].sections) : s.name = ".text"
           /\ \E s \in Range(units[u].sections) : s.name = hi.symbol.section
<1>1. /\ hi \in Range(units[u].relocs) /\ hi.section = ".text"
      /\ hi.type = "high16" /\ ~hi.symbol.absolute
  BY DEF Uppers
<1>2. IsUnit(units[u])
  BY UnitIs
<1>3. units[u].format = "xff"
  BY <1>1, <1>2 DEF IsUnit, Range
<1>4. units[u].words[hi.offset].kind = "plain" /\ \E s \in Range(units[u].sections) : s.name = ".text"
  BY <1>1, <1>2 DEF IsUnit
<1>5. hi.symbol.defined
  BY <1>1 DEF AllWellFormed, WellFormed, NoImports, Units
<1>6. \E s \in Range(units[u].sections) : s.name = hi.symbol.section
  BY <1>1, <1>2, <1>5 DEF IsUnit
<1>7. hi.symbol.section \in KnownNames
  BY <1>1 DEF AllWellFormed, WellFormed, DataKnown, Units
<1> QED
  BY <1>1, <1>3, <1>4, <1>6, <1>7 DEF Relocs

\* Inside a function the code finds the relocation of a half of an address.
LEMMA HalfFound ==
    ASSUME units \in Projects, AllWellFormed, NEW u \in Units, NEW r \in Range(Relocs(u)),
           r.section = ".text", NEW x \in Functions(u), r.offset \in x.start .. x.end - 1
    PROVE  /\ AtOffset(u, r.offset) = r /\ r # None
           /\ Moved(u, r.offset) = Apply(units[u].words[r.offset], r)
<1>1. IsUnit(units[u])
  BY UnitIs
<1>2. Relocs(u) = units[u].relocs
  BY <1>1 DEF Relocs, IsUnit
<1>3. PICK k \in DOMAIN units[u].relocs : r = units[u].relocs[k]
  BY <1>2 DEF Range
<1>4. AtOffset(u, r.offset) = Meant(units[u], r.offset)
  BY AtOffsetMeant
<1>5. PICK n \in DOMAIN units[u].relocs : /\ Meant(units[u], r.offset) = units[u].relocs[n]
                                          /\ units[u].relocs[n] # None
                                          /\ units[u].relocs[n].section = ".text"
                                          /\ units[u].relocs[n].offset = r.offset
  BY <1>3, MeantIs
<1>6. n = k
  BY <1>1, <1>3, <1>5 DEF IsUnit
<1> QED
  BY <1>3, <1>4, <1>5, <1>6 DEF Moved

\* An instruction has one upper half at most.
LEMMA UpperAt ==
    ASSUME units \in Projects, NEW u \in Units, NEW hi \in Uppers(units[u]),
           NEW lo \in Uppers(units[u]), hi.offset = lo.offset
    PROVE  hi = lo
<1>1. /\ hi \in Range(units[u].relocs) /\ lo \in Range(units[u].relocs)
      /\ hi.section = ".text" /\ lo.section = ".text"
  BY DEF Uppers
<1>2. PICK j \in DOMAIN units[u].relocs : hi = units[u].relocs[j]
  BY <1>1 DEF Range
<1>3. PICK k \in DOMAIN units[u].relocs : lo = units[u].relocs[k]
  BY <1>1 DEF Range
<1>4. j = k
  BY <1>1, <1>2, <1>3, UnitIs DEF IsUnit
<1> QED
  BY <1>2, <1>3, <1>4

\* Functions of a unit do not overlap.
LEMMA FunctionAt ==
    ASSUME units \in Projects, AllWellFormed, NEW u \in Units,
           NEW x \in Functions(u), NEW y \in Functions(u),
           NEW p \in x.start .. x.end - 1, p \in y.start .. y.end - 1
    PROVE  x = y
<1>1. PICK j \in DOMAIN units[u].splits : x = units[u].splits[j]
  BY DEF Functions, Texts, Range
<1>2. PICK k \in DOMAIN units[u].splits : y = units[u].splits[k]
  BY DEF Functions, Texts, Range
<1>3. j \in Nat /\ k \in Nat /\ x.section = ".text" /\ y.section = ".text"
  BY UnitIs DEF Functions, Texts
<1>4. /\ j < k => x.end =< y.start
      /\ k < j => y.end =< x.start
  BY <1>1, <1>2, <1>3 DEF AllWellFormed, WellFormed, InOrder, Units
<1>5. x.start \in Nat /\ x.end \in Nat /\ y.start \in Nat /\ y.end \in Nat
  BY SplitIs DEF Functions, Texts
<1>6. j = k
  BY <1>3, <1>4, <1>5
<1> QED
  BY <1>1, <1>2, <1>6

\* What the end of process_instruction does at a place of a function: it puts the
\* pointer of an upper half there, or nothing.
LEMMA InjectsAt ==
    ASSUME units \in Projects, AllWellFormed, unit \in Units, NEW x \in Functions(unit),
           NEW p \in x.start .. x.end - 1, image[unit][p] = Moved(unit, p)
    PROVE  \/ Inject(p, p) = injected /\ \A hi \in Uppers(units[unit]) : hi.offset # p
           \/ \E hi \in Uppers(units[unit]) :
                 hi.offset = p /\ Inject(p, p) = injected \cup {PointerTo(unit, hi)}
<1> DEFINE r == RelocAt(p)
<1>1. r = AtOffset(unit, p)
  BY DEF RelocAt, AtOffset, First
<1>2. r = Meant(units[unit], p)
  BY <1>1, AtOffsetMeant
<1>3. \A hi \in Uppers(units[unit]) : hi.offset = p => r = hi /\ hi # None
  <2> TAKE hi \in Uppers(units[unit])
  <2> HAVE hi.offset = p
  <2>1. hi \in Range(Relocs(unit)) /\ hi.section = ".text"
    BY UpperIs
  <2> QED
    BY <1>1, <2>1, HalfFound
<1>4. CASE r # None /\ r.type = "high16" /\ ~r.symbol.absolute
  <2>1. r \in Range(units[unit].relocs) /\ r.section = ".text" /\ r.offset = p
    BY <1>2, <1>4, MeantIs DEF Range
  <2>2. r \in Uppers(units[unit])
    BY <1>4, <2>1 DEF Uppers
  <2>3. Pointer(p, r.symbol) = PointerTo(unit, r)
    BY <2>1 DEF Pointer, PointerTo
  <2>4. Inject(p, p) = injected \cup {Pointer(p, r.symbol)}
    BY <1>4 DEF Inject
  <2> QED
    BY <2>1, <2>2, <2>3, <2>4
<1>5. CASE ~(r # None /\ r.type = "high16" /\ ~r.symbol.absolute)
  <2>1. Inject(p, p) = injected
    BY <1>5 DEF Inject
  <2>2. \A hi \in Uppers(units[unit]) : hi.type = "high16" /\ ~hi.symbol.absolute
    BY DEF Uppers
  <2> QED
    BY <1>3, <1>5, <2>1, <2>2
<1> QED
  BY <1>4, <1>5

\* A transfer is no upper half, so nothing is put where its own relocation is looked up.
LEMMA InjectsNothing ==
    ASSUME units \in Projects, AllWellFormed, unit \in Units, NEW x \in Functions(unit),
           NEW p \in x.start .. x.end - 1, units[unit].words[p].kind # "plain", NEW q
    PROVE  Inject(q, p) = injected
<1>1. RelocAt(p) = Meant(units[unit], p)
  <2>1. RelocAt(p) = AtOffset(unit, p)
    BY DEF RelocAt, AtOffset, First
  <2> QED
    BY <2>1, AtOffsetMeant
<1>2. RelocAt(p) # None => RelocAt(p).type = "26"
  <2>1. IsUnit(units[unit])
    BY UnitIs
  <2>2. RelocAt(p) # None => /\ RelocAt(p) \in Range(units[unit].relocs)
                             /\ RelocAt(p).section = ".text" /\ RelocAt(p).offset = p
    BY <1>1, MeantIs DEF Range
  <2> QED
    BY <2>1, <2>2 DEF IsUnit
<1> QED
  BY <1>2 DEF Inject

\* The section of a name that is known has a type.
LEMMA KnownIsTyped == \A n \in KnownNames : HeaderType(TypeOf(n)) # "null"
<1>1. \A n \in KnownNames : TypeOf(n) \in {n, ".rel.text", ".rel.rodata", ".rel.data"}
  BY DEF TypeOf
<1>2. \A n \in KnownNames : n # "null"
  BY DEF KnownNames
<1>3. \A t : t # "null" => HeaderType(t) # "null"
  BY DEF HeaderType
<1> QED
  BY <1>1, <1>2, <1>3

\* A section of a module that is known by name is loaded.
LEMMA SectionOf ==
    ASSUME units \in Projects, NEW u \in Units, units[u].format = "xff",
           NEW s \in Range(units[u].sections), s.name \in KnownNames
    PROVE  \E k \in DOMAIN Headers(units[u]) : /\ Headers(units[u])[k].name = s.name
                                               /\ Headers(units[u])[k].type # "null"
<1>1. Headers(units[u]) = [n \in DOMAIN units[u].sections |-> FromXff(units[u].sections[n])]
  BY Zenon DEF Headers
<1>2. PICK k \in DOMAIN units[u].sections : s = units[u].sections[k]
  BY DEF Range
<1>3. s \in SectionHeader
  BY <1>2, UnitIs DEF IsUnit
<1>4. Headers(units[u])[k] = FromXff(s)
  BY <1>1, <1>2
<1>5. FromXff(s).name = s.name /\ FromXff(s).type = HeaderType(TypeOf(s.name))
  BY <1>3 DEF FromXff, SectionHeader
<1> QED
  BY <1>1, <1>2, <1>4, <1>5, KnownIsTyped

\* A unit with pointers to data has a section of code that is processed.
LEMMA HasText ==
    ASSUME units \in Projects, AllWellFormed, NEW u \in Units, NEW hi \in Uppers(units[u])
    PROVE  \E k \in DOMAIN Headers(units[u]) : Processed(Headers(units[u])[k])
<1>1. ".text" \in KnownNames
  BY DEF KnownNames
<1> QED
  BY <1>1, UpperIs, SectionOf DEF Processed

\* Where the driver can be.
LEMMA DriverIs ==
    ASSUME AllWellFormed, LinkerInv, PointersInv
    PROVE  /\ units \in Projects /\ unit \in Units /\ Units \subseteq Nat
           /\ section \in Nat \ {0} /\ split \in Nat \ {0}
           /\ pc # "load" => headers[unit] = Headers(units[unit])
<1>1. units \in Projects /\ unit \in Units /\ section \in Nat /\ split \in Nat
  BY DEF LinkerInv, Position, Places
<1>2. pc # "load" => headers[unit] = Headers(units[unit])
  BY <1>1 DEF LinkerInv, HeadersKept
<1>3. Units \subseteq Nat
  BY <1>1, UnitIs
<1> QED
  BY <1>1, <1>2, <1>3 DEF PointersInv

\* What only depends on the units stays.
LEMMA PointersUnmoved ==
    ASSUME UNCHANGED units
    PROVE  /\ Units' = Units /\ \A u, hi : PointerTo(u, hi)' = PointerTo(u, hi)
           /\ \A u, p : Moved(u, p)' = Moved(u, p) /\ InCallSlot(u, p)' = InCallSlot(u, p)
<1>1. \A u, p : Moved(u, p)' = Moved(u, p)
  BY Unmoved
<1>2. \A u, hi : PointerTo(u, hi)' = PointerTo(u, hi)
  BY <1>1 DEF PointerTo, Half
<1> QED
  BY <1>1, <1>2, Unmoved DEF InCallSlot

\* Nothing new is passed in a unit with pointers.
Still == \A u \in Units : \A j \in DOMAIN units[u].splits :
            LET x == units[u].splits[j] IN
            Uppers(units[u]) # {} /\ Emitted(x) =>
                \A p \in x.start .. x.end - 1 : Passed(u, j, p)' => Passed(u, j, p)

\* What has been emitted and injected stays where nothing new is passed.
LEMMA NothingPassed ==
    ASSUME CodeMoved, UppersInjected, InjectedKnown, UNCHANGED <<units, image, injected>>, Still
    PROVE  CodeMoved' /\ UppersInjected' /\ InjectedKnown'
<1>1. /\ Units' = Units /\ \A u, hi : PointerTo(u, hi)' = PointerTo(u, hi)
      /\ \A u, p : Moved(u, p)' = Moved(u, p) /\ InCallSlot(u, p)' = InCallSlot(u, p)
  BY PointersUnmoved
<1>2. CodeMoved'
  BY <1>1 DEF CodeMoved, Still
<1>3. UppersInjected'
  <2> SUFFICES ASSUME NEW u \in Units, NEW hi \in Uppers(units[u]),
                      NEW j \in DOMAIN units[u].splits, Emitted(units[u].splits[j]),
                      hi.offset \in units[u].splits[j].start .. units[u].splits[j].end - 1,
                      Passed(u, j, hi.offset)', ~InCallSlot(u, hi.offset)
               PROVE  PointerTo(u, hi) \in injected
    BY <1>1 DEF UppersInjected
  <2>1. Passed(u, j, hi.offset)
    BY DEF Still
  <2> QED
    BY <2>1 DEF UppersInjected
<1>4. InjectedKnown'
  BY <1>1 DEF InjectedKnown
<1> QED
  BY <1>2, <1>3, <1>4

\* Outside WriteTables nothing is known of the tables.
LEMMA DriverKeepsPointers ==
    ASSUME AllWellFormed, LinkerInv, PointersInv,
           Load \/ PassSection \/ EnterSection \/ Skip \/ EndSplit \/ EndSection \/ EndUnit \/ Crash
    PROVE  PointersInv'
<1>1. UNCHANGED <<units, image, injected>> /\ pc' # "done"
  BY DEF Load, PassSection, EnterSection, Skip, EndSplit, EndSection, EndUnit, Crash
<1>2. /\ units \in Projects /\ unit \in Units /\ Units \subseteq Nat
      /\ section \in Nat \ {0} /\ split \in Nat \ {0}
      /\ pc # "load" => headers[unit] = Headers(units[unit])
  BY DriverIs
<1>3. section' > 0 /\ split' > 0
  BY <1>2 DEF Load, PassSection, EnterSection, Skip, EndSplit, EndSection, EndUnit, Crash
<1>4. /\ \E n \in Nat : DOMAIN Headers(units[unit]) = 1 .. n
      /\ \E n \in Nat : DOMAIN units[unit].splits = 1 .. n
  BY <1>2, NumberedFromOne
<1>5. ASSUME NEW u \in Units, NEW hi \in Uppers(units[u]), NEW j \in DOMAIN units[u].splits,
             Emitted(units[u].splits[j]),
             NEW p \in units[u].splits[j].start .. units[u].splits[j].end - 1,
             Passed(u, j, p)'
      PROVE  Passed(u, j, p)
  <2>1. CASE Load
    <3>1. headers'[unit] = Headers(units[unit])
      BY <1>2, <2>1 DEF Load, LinkerInv, HeadersKept
    <3>2. \A n \in DOMAIN headers'[unit] : ~(n < section')
      BY <1>4, <2>1, <3>1 DEF Load
    <3> QED
      BY <1>5, <2>1, <3>2 DEF Load, Passed
  <2>2. CASE PassSection
    BY <1>2, <1>4, <1>5, <2>2 DEF PassSection, Passed
  <2>3. CASE EnterSection
    BY <1>2, <1>4, <1>5, <2>3 DEF EnterSection, Passed
  <2>4. CASE Skip
    BY <1>2, <1>4, <1>5, <2>4 DEF Skip, Passed, This
  <2>5. CASE EndSplit
    <3>1. i \in Nat /\ This.start \in Nat /\ This.end \in Nat /\ This.end =< i
      <4>1. This \in Range(units[unit].splits)
        BY <2>5 DEF EndSplit, LinkerInv, Position, This, Range
      <4> QED
        BY <1>2, <2>5, <4>1, SplitIs DEF EndSplit, LinkerInv, Places
    <3>2. u = unit /\ j = split => p < i
      BY <1>5, <3>1 DEF This
    <3> QED
      BY <1>2, <1>4, <1>5, <2>5, <3>2 DEF EndSplit, Passed
  <2>6. CASE EndSection
    BY <1>2, <1>4, <1>5, <2>6 DEF EndSection, Passed
  <2>7. CASE EndUnit
    <3>1. u = unit => \E n \in DOMAIN headers[unit] : n < section /\ Processed(headers[unit][n])
      <4>1. u = unit => \E n \in DOMAIN headers[unit] : Processed(headers[unit][n])
        BY <1>2, <1>5, <2>7, HasText DEF EndUnit
      <4> QED
        BY <1>2, <1>4, <2>7, <4>1 DEF EndUnit
    <3>2. u < unit \/ u = unit
      <4>1. Units = 1 .. Len(units) /\ Len(units) \in Nat
        BY <1>2, UnitIs
      <4> QED
        BY <1>2, <1>5, <2>7, <4>1 DEF EndUnit, Passed
    <3> QED
      BY <2>7, <3>1, <3>2 DEF EndUnit, Passed
  <2>8. CASE Crash
    BY <1>2, <1>4, <1>5, <2>8 DEF Crash, Passed
  <2> QED
    BY <2>1, <2>2, <2>3, <2>4, <2>5, <2>6, <2>7, <2>8
<1>6. Still
  BY <1>5 DEF Still
<1>7. CodeMoved' /\ UppersInjected' /\ InjectedKnown'
  BY <1>1, <1>6, NothingPassed DEF PointersInv
<1>8. Aligned'
  BY DEF Load, PassSection, EnterSection, Skip, EndSplit, EndSection, EndUnit, Crash, Aligned
<1> QED
  BY <1>1, <1>3, <1>7, <1>8 DEF PointersInv, TablesWritten

\* Relocating a split changes nothing that has been emitted.
LEMMA RelocateKeepsPointers ==
    ASSUME AllWellFormed, LinkerInv, PointersInv, Relocate
    PROVE  PointersInv'
<1>1. /\ UNCHANGED <<units, unit, section, split, headers, injected>> /\ This' = This
      /\ pc = "split" /\ pc' = "emit" /\ i' = This.start
      /\ split \in DOMAIN units[unit].splits /\ Emitted(This)
      /\ image' = [image EXCEPT ![unit] = [p \in DOMAIN image[unit] |->
                      IF p \in This.start .. This.end - 1 /\ RelocAt(p) # None
                      THEN Apply(image[unit][p], RelocAt(p)) ELSE image[unit][p]]]
  BY DEF Relocate, This
<1>2. /\ units \in Projects /\ unit \in Units /\ section \in Nat \ {0} /\ split \in Nat \ {0}
      /\ section \in DOMAIN headers[unit] /\ Processed(headers[unit][section])
      /\ headers[unit] = Headers(units[unit])
      /\ DOMAIN image = Units /\ \A u \in Units : DOMAIN image[u] = DOMAIN units[u].words
  BY <1>1, DriverIs DEF LinkerInv, Position, Places, ImagesKept
<1>3. /\ This \in Functions(unit) /\ This.start \in Nat /\ This.end \in Nat
  <2>1. This \in Range(units[unit].splits)
    BY <1>1 DEF This, Range
  <2> QED
    BY <1>1, <1>2, <2>1, SplitIs DEF Functions, Texts, Emitted
<1>4. ASSUME NEW n \in DOMAIN headers[unit], n < section, Processed(headers[unit][n])
      PROVE  FALSE
  <2>1. n = section
    BY <1>2, <1>4, TextHeader DEF Processed
  <2> QED
    BY <1>2, <1>4, <2>1
<1>5. ASSUME NEW u \in Units, NEW j \in DOMAIN units[u].splits,
             NEW p \in units[u].splits[j].start .. units[u].splits[j].end - 1,
             Passed(u, j, p)'
      PROVE  Passed(u, j, p)
  <2>1. u = unit /\ j = split => ~(p < This.start)
    BY <1>3, <1>5 DEF This
  <2> QED
    BY <1>1, <1>5, <2>1 DEF Passed
<1>6. ASSUME NEW u \in Units, NEW j \in DOMAIN units[u].splits, Emitted(units[u].splits[j]),
             NEW p \in units[u].splits[j].start .. units[u].splits[j].end - 1,
             Passed(u, j, p)
      PROVE  image'[u][p] = image[u][p]
  <2>1. CASE u # unit
    BY <1>1, <1>2, <2>1
  <2>2. CASE u = unit
    <3> DEFINE x == units[unit].splits[j]
    <3>1. unit \in Nat /\ j \in Nat /\ j < split
      BY <1>1, <1>2, <1>4, <1>6, <2>2, UnitIs DEF Passed
    <3>2. x \in Functions(unit) /\ x.section = ".text"
      BY <1>6, <2>2 DEF Functions, Texts, Range, Emitted
    <3>3. x.end =< This.start
      <4>1. split \in DOMAIN units[unit].splits /\ This = units[unit].splits[split] /\ This.section = ".text"
        BY <1>1 DEF This, Emitted
      <4> QED
        BY <1>2, <1>6, <2>2, <3>1, <3>2, <4>1 DEF AllWellFormed, WellFormed, InOrder, Units
    <3>4. x.start \in Nat /\ x.end \in Nat
      BY <1>2, <3>2, SplitIs DEF Functions, Texts
    <3>5. p \notin This.start .. This.end - 1
      BY <1>3, <1>6, <2>2, <3>3, <3>4
    <3>6. p \in DOMAIN image[unit]
      BY <1>2, <1>6, <2>2, <3>2, MovedIs
    <3> QED
      BY <1>1, <1>2, <2>2, <3>5, <3>6
  <2> QED
    BY <2>1, <2>2
<1>7. /\ Units' = Units /\ \A u, hi : PointerTo(u, hi)' = PointerTo(u, hi)
      /\ \A u, p : Moved(u, p)' = Moved(u, p) /\ InCallSlot(u, p)' = InCallSlot(u, p)
  BY <1>1, PointersUnmoved
<1>8. CodeMoved'
  <2> SUFFICES ASSUME NEW u \in Units, NEW j \in DOMAIN units[u].splits,
                      Uppers(units[u]) # {}, Emitted(units[u].splits[j]),
                      NEW p \in units[u].splits[j].start .. units[u].splits[j].end - 1,
                      Passed(u, j, p)'
               PROVE  image'[u][p] = Moved(u, p)
    BY <1>1, <1>7 DEF CodeMoved
  <2>1. Passed(u, j, p)
    BY <1>5
  <2>2. image[u][p] = Moved(u, p)
    BY <2>1 DEF PointersInv, CodeMoved
  <2> QED
    BY <1>6, <2>1, <2>2
<1>9. UppersInjected'
  <2> SUFFICES ASSUME NEW u \in Units, NEW hi \in Uppers(units[u]),
                      NEW j \in DOMAIN units[u].splits, Emitted(units[u].splits[j]),
                      hi.offset \in units[u].splits[j].start .. units[u].splits[j].end - 1,
                      Passed(u, j, hi.offset)', ~InCallSlot(u, hi.offset)
               PROVE  PointerTo(u, hi) \in injected
    BY <1>1, <1>7 DEF UppersInjected
  <2>1. Passed(u, j, hi.offset)
    BY <1>5
  <2> QED
    BY <2>1 DEF PointersInv, UppersInjected
<1>10. InjectedKnown'
  BY <1>1, <1>7 DEF PointersInv, InjectedKnown
<1>11. Aligned'
  <2>1. i' - 1 \notin This.start .. This.end - 1
    BY <1>1, <1>3
  <2> QED
    BY <1>1, <2>1 DEF Aligned
<1> QED
  BY <1>1, <1>2, <1>8, <1>9, <1>10, <1>11 DEF PointersInv, TablesWritten

\* Emitting an instruction injects the pointers of what it passes, but in the slots of calls.
LEMMA EmitKeepsPointers ==
    ASSUME AllWellFormed, LinkerInv, PointersInv,
           EmitPlain \/ EmitTransfer \/ EmitCall \/ FailJump
    PROVE  PointersInv'
<1>1. /\ UNCHANGED <<units, pc, unit, section, split, headers, image>> /\ This' = This
      /\ pc = "emit" /\ i < This.end
      /\ \/ Here.kind = "plain" /\ i' = i + 1 /\ injected' = Inject(i, i)
         \/ Here.kind = "jump" /\ i' = i + 2 /\ injected' = Inject(i + 1, i + 1)
         \/ Here.kind \in {"jal", "jalr"} /\ i' = i + 2 /\ injected' = Inject(i + 1, i)
  BY DEF EmitPlain, EmitTransfer, EmitCall, FailJump, Emit, SlotAddress, This
<1>2. /\ units \in Projects /\ unit \in Units /\ section \in Nat \ {0} /\ split \in Nat \ {0}
      /\ \A p \in This.start .. This.end - 1 : image[unit][p] = Moved(unit, p)
  BY <1>1, DriverIs DEF LinkerInv, ImagesKept
<1>3. /\ This \in Functions(unit) /\ i \in Nat /\ i \in This.start .. This.end - 1
      /\ This.start \in Nat /\ This.end \in Nat
  BY <1>1, <1>2, EmitFacts, SplitIs DEF Functions, Texts
<1> DEFINE word(p) == units[unit].words[p]
<1>4. /\ Here.kind = word(i).kind
      /\ word(i).kind # "plain" => i + 1 \in This.start .. This.end - 1 /\ word(i + 1).kind = "plain"
  <2>1. Here.kind = word(i).kind
    BY <1>2, <1>3, MovedIs DEF Here
  <2>2. word(i).kind # "plain" => i + 1 < This.end /\ word(i + 1).kind = "plain"
    <3>1. IsUnit(units[unit]) /\ This \in Range(units[unit].splits) /\ This.section = ".text"
      BY <1>2, <1>3, UnitIs DEF Functions, Texts
    <3> QED
      BY <1>3, <3>1 DEF IsUnit
  <2> QED
    BY <1>3, <2>1, <2>2
\* What is in the slot of a call: what follows a call in this function.
<1>5. ASSUME NEW p \in This.start .. This.end - 1, InCallSlot(unit, p)
      PROVE  p - 1 \in This.start .. This.end - 1 /\ word(p - 1).kind \in {"jal", "jalr"}
  <2>1. PICK x \in Functions(unit) : p - 1 \in x.start .. x.end - 1 /\ word(p - 1).kind \in {"jal", "jalr"}
    BY <1>5 DEF InCallSlot
  <2>2. x.start \in Nat /\ x.end \in Nat /\ p \in Nat
    BY <1>2, <1>3, <2>1, SplitIs DEF Functions, Texts
  <2>3. IsUnit(units[unit]) /\ x \in Range(units[unit].splits) /\ x.section = ".text"
    BY <1>2, <2>1, UnitIs DEF Functions, Texts
  <2>4. (p - 1) + 1 < x.end
    BY <2>1, <2>3 DEF IsUnit
  <2>5. p \in x.start .. x.end - 1
    BY <2>1, <2>2, <2>4
  <2>6. x = This
    BY <1>2, <1>3, <2>5, FunctionAt
  <2> QED
    BY <2>1, <2>6
\* What is passed: one instruction, or a transfer and its slot.
<1>6. ASSUME NEW u \in Units, NEW j \in DOMAIN units[u].splits,
             NEW p \in units[u].splits[j].start .. units[u].splits[j].end - 1,
             Passed(u, j, p)', ~Passed(u, j, p)
      PROVE  /\ u = unit /\ j = split /\ p \in This.start .. This.end - 1
             /\ \/ p = i
                \/ p = i + 1 /\ Here.kind # "plain"
  <2>1. u = unit /\ j = split /\ ~(p < i) /\ p < i'
    BY <1>1, <1>6 DEF Passed
  <2>2. p \in This.start .. This.end - 1
    BY <1>6, <2>1 DEF This
  <2> QED
    BY <1>1, <1>3, <2>1, <2>2
\* What is injected.
<1>7. \/ injected' = injected
      \/ \E hi \in Uppers(units[unit]) :
            /\ injected' = injected \cup {PointerTo(unit, hi)} /\ ~InCallSlot(unit, hi.offset)
  <2>1. CASE Here.kind = "plain"
    <3>1. injected' = Inject(i, i)
      BY <1>1, <2>1
    <3>2. ~InCallSlot(unit, i)
      BY <1>1, <1>3, <1>5 DEF PointersInv, Aligned
    <3> QED
      BY <1>2, <1>3, <3>1, <3>2, InjectsAt
  <2>2. CASE Here.kind = "jump"
    <3>1. injected' = Inject(i + 1, i + 1) /\ i + 1 \in This.start .. This.end - 1
      BY <1>1, <1>4, <2>2
    <3>2. ~InCallSlot(unit, i + 1)
      <4>1. (i + 1) - 1 = i
        BY <1>3
      <4> QED
        BY <1>4, <1>5, <2>2, <3>1, <4>1
    <3> QED
      BY <1>2, <1>3, <3>1, <3>2, InjectsAt
  <2>3. CASE Here.kind \in {"jal", "jalr"}
    <3>1. injected' = Inject(i + 1, i)
      BY <1>1, <2>3
    <3> QED
      BY <1>2, <1>3, <1>4, <2>3, <3>1, InjectsNothing
  <2> QED
    BY <1>1, <2>1, <2>2, <2>3
<1>8. ASSUME NEW hi \in Uppers(units[unit]), hi.offset \in This.start .. This.end - 1,
             \/ hi.offset = i
             \/ hi.offset = i + 1 /\ Here.kind # "plain",
             ~InCallSlot(unit, hi.offset)
      PROVE  PointerTo(unit, hi) \in injected'
  <2> DEFINE p == hi.offset
  <2>1. word(p).kind = "plain"
    BY <1>2, UpperIs
  <2>2. injected' = Inject(p, p)
    <3>1. CASE p = i
      BY <1>1, <1>4, <2>1, <3>1
    <3>2. CASE p = i + 1 /\ Here.kind # "plain"
      <4>1. p - 1 = i
        BY <1>3, <3>2
      <4>2. Here.kind \notin {"jal", "jalr"}
        BY <1>3, <1>4, <1>8, <4>1 DEF InCallSlot
      <4> QED
        BY <1>1, <3>2, <4>2
    <3> QED
      BY <1>8, <3>1, <3>2
  <2>3. \/ Inject(p, p) = injected /\ \A h \in Uppers(units[unit]) : h.offset # p
        \/ \E h \in Uppers(units[unit]) :
              h.offset = p /\ Inject(p, p) = injected \cup {PointerTo(unit, h)}
    BY <1>2, <1>3, <1>8, InjectsAt
  <2> QED
    BY <1>2, <2>2, <2>3, UpperAt
<1>9. /\ Units' = Units /\ \A u, hi : PointerTo(u, hi)' = PointerTo(u, hi)
      /\ \A u, p : Moved(u, p)' = Moved(u, p) /\ InCallSlot(u, p)' = InCallSlot(u, p)
  BY <1>1, PointersUnmoved
<1>10. injected \subseteq injected'
  BY <1>7
<1> HIDE DEF word
<1>11. CodeMoved'
  <2> SUFFICES ASSUME NEW u \in Units, NEW j \in DOMAIN units[u].splits,
                      Uppers(units[u]) # {}, Emitted(units[u].splits[j]),
                      NEW p \in units[u].splits[j].start .. units[u].splits[j].end - 1,
                      Passed(u, j, p)'
               PROVE  image[u][p] = Moved(u, p)
    BY <1>1, <1>9 DEF CodeMoved
  <2>1. CASE Passed(u, j, p)
    BY <2>1 DEF PointersInv, CodeMoved
  <2>2. CASE ~Passed(u, j, p)
    BY <1>2, <1>6, <2>2
  <2> QED
    BY <2>1, <2>2
<1>12. UppersInjected'
  <2> SUFFICES ASSUME NEW u \in Units, NEW hi \in Uppers(units[u]),
                      NEW j \in DOMAIN units[u].splits, Emitted(units[u].splits[j]),
                      hi.offset \in units[u].splits[j].start .. units[u].splits[j].end - 1,
                      Passed(u, j, hi.offset)', ~InCallSlot(u, hi.offset)
               PROVE  PointerTo(u, hi) \in injected'
    BY <1>1, <1>9 DEF UppersInjected
  <2>1. CASE Passed(u, j, hi.offset)
    BY <1>10, <2>1 DEF PointersInv, UppersInjected
  <2>2. CASE ~Passed(u, j, hi.offset)
    BY <1>6, <1>8, <2>2
  <2> QED
    BY <2>1, <2>2
<1>13. InjectedKnown'
  <2>1. \A y \in injected' : \E u \in Units : \E hi \in Uppers(units[u]) :
           y = PointerTo(u, hi) /\ ~InCallSlot(u, hi.offset)
    BY <1>2, <1>7 DEF PointersInv, InjectedKnown
  <2> QED
    BY <1>1, <1>9, <2>1 DEF InjectedKnown
<1>14. Aligned'
  <2>1. units[unit].words[i' - 1].kind = "plain"
    <3>1. CASE Here.kind = "plain"
      <4>1. i' - 1 = i
        BY <1>1, <1>3, <3>1
      <4> QED
        BY <1>4, <3>1, <4>1 DEF word
    <3>2. CASE Here.kind # "plain"
      <4>1. i' - 1 = i + 1
        BY <1>1, <1>3, <3>2
      <4> QED
        BY <1>4, <3>2, <4>1 DEF word
    <3> QED
      BY <3>1, <3>2
  <2> QED
    BY <1>1, <2>1 DEF Aligned
<1> QED
  BY <1>1, <1>2, <1>11, <1>12, <1>13, <1>14 DEF PointersInv, TablesWritten

\* The tables are those of the headers that have been read.
LEMMA TablesStay == UNCHANGED <<units, headers>> => Indices' = Indices /\ Blobs' = Blobs
BY DEF Indices, Blobs, Number, Listing, UpTo, ConstOf, NameOf, Loaded, Listed, HeaderOf, AllSections

\* The tables are written, and stay.
LEMMA TablesKeepPointers ==
    ASSUME AllWellFormed, LinkerInv, PointersInv, WriteTables \/ UNCHANGED vars
    PROVE  PointersInv'
<1>1. /\ UNCHANGED <<units, unit, section, split, i, headers, image, injected>> /\ This' = This
      /\ pc' = pc \/ (pc = "tables" /\ pc' = "done")
  BY DEF WriteTables, vars, place, This
<1>2. Still
  BY <1>1 DEF Still, Passed
<1>3. CodeMoved' /\ UppersInjected' /\ InjectedKnown'
  BY <1>1, <1>2, NothingPassed DEF PointersInv
<1>4. TablesWritten'
  <2>1. CASE WriteTables
    BY <1>1, <2>1, TablesStay DEF WriteTables, TablesWritten
  <2>2. CASE UNCHANGED vars
    BY <1>1, <2>2, TablesStay DEF vars, place, tables, TablesWritten, PointersInv
  <2> QED
    BY <2>1, <2>2
<1>5. Aligned'
  BY <1>1 DEF PointersInv, Aligned
<1> QED
  BY <1>1, <1>3, <1>4, <1>5 DEF PointersInv

\* In every behaviour.
THEOREM PointersInvariant == ASSUME AllWellFormed
                             PROVE  Spec => []PointersInv
<1>1. AllWellFormed /\ Init => PointersInv
  <2> SUFFICES ASSUME AllWellFormed, Init
               PROVE  PointersInv
    OBVIOUS
  <2>1. section > 0 /\ split > 0 /\ Aligned /\ InjectedKnown /\ TablesWritten
    BY DEF Init, Aligned, InjectedKnown, TablesWritten
  <2>2. \A u \in Units : ~(u < unit)
    <3>1. Units = 1 .. Len(units) /\ unit = 1
      BY UnitIs, ProjectsAssumption DEF Init, Units
    <3> QED
      BY <3>1
  <2>3. \A u \in Units : \A j, p : ~Passed(u, j, p)
    BY <2>2 DEF Init, Passed
  <2>4. UppersInjected /\ CodeMoved
    BY <2>3 DEF UppersInjected, CodeMoved
  <2> QED
    BY <2>1, <2>4 DEF PointersInv
<1>2. AllWellFormed /\ LinkerInv /\ PointersInv /\ [Next]_vars => PointersInv'
  BY DriverKeepsPointers, RelocateKeepsPointers, EmitKeepsPointers, TablesKeepPointers DEF Next
<1> QED
  BY <1>1, <1>2, LinkerInvariant, PTL DEF Spec

\* All headers have been read.
AllRead == units \in Projects /\ \A u \in Units : headers[u] = Headers(units[u])

\* The sections are pairs of a unit and a place in it.
LEMMA SectionsAre ==
    ASSUME AllRead, NEW s \in AllSections
    PROVE  /\ s[1] \in Units /\ s[2] \in DOMAIN headers[s[1]] /\ s = <<s[1], s[2]>>
           /\ s[1] \in Nat /\ s[2] \in Nat
<1>1. PICK u \in Units : s \in {u} \X DOMAIN headers[u]
  BY DEF AllSections, Units
<1>2. s[1] = u /\ s[2] \in DOMAIN headers[u] /\ s = <<s[1], s[2]>>
  BY <1>1
<1>3. u \in Nat /\ DOMAIN headers[u] \subseteq Nat
  BY UnitIs DEF AllRead
<1> QED
  BY <1>2, <1>3

\* There are finitely many.
LEMMA LoadedFinite == AllRead => IsFiniteSet(Loaded)
<1> SUFFICES ASSUME AllRead
             PROVE  IsFiniteSet(Loaded)
  OBVIOUS
<1> DEFINE of  == [u \in Units |-> {u} \X DOMAIN headers[u]]
           all == {of[u] : u \in Units}
<1>1. IsFiniteSet(Units)
  <2>1. Units = 1 .. Len(units) /\ Len(units) \in Nat
    <3>1. 1 \in Units
      BY ProjectsAssumption DEF AllRead, Units
    <3> QED
      BY <3>1, UnitIs DEF AllRead
  <2> QED
    BY <2>1, FS_Interval
<1>2. \A u \in Units : IsFiniteSet(of[u])
  <2> TAKE u \in Units
  <2>1. \E n \in Nat : DOMAIN headers[u] = 1 .. n
    BY NumberedFromOne DEF AllRead
  <2>2. IsFiniteSet(DOMAIN headers[u])
    BY <2>1, FS_Interval
  <2> QED
    BY <2>2, FS_Singleton, FS_Product
<1>3. of \in Surjection(Units, all)
  BY DEF Surjection
<1>4. UNION all = AllSections
  BY DEF AllSections, Units
<1> HIDE DEF of
<1>5. IsFiniteSet(all)
  BY <1>1, <1>3, FS_Surjection
<1>6. \A S \in all : IsFiniteSet(S)
  BY <1>2
<1>7. IsFiniteSet(AllSections)
  <2> HIDE DEF all
  <2> QED
    BY <1>4, <1>5, <1>6, FS_UNION
<1>8. Loaded \in SUBSET AllSections
  BY DEF Loaded
<1> QED
  BY <1>7, <1>8, FS_Subset

\* Sections are numbered from one to their number.
LEMMA NumbersInRange ==
    ASSUME AllRead, NEW s \in Loaded
    PROVE  Number(s) \in 1 .. Cardinality(Loaded)
<1> DEFINE upto == Loaded \cap UpTo(s)
<1>1. s \in upto
  BY SectionsAre DEF Loaded, UpTo
<1>2. upto \in SUBSET Loaded
  OBVIOUS
<1> HIDE DEF upto
<1>3. IsFiniteSet(upto) /\ Cardinality(upto) =< Cardinality(Loaded)
  BY <1>2, LoadedFinite, FS_Subset
<1>4. Cardinality(upto) \in Nat /\ Cardinality(Loaded) \in Nat /\ Cardinality(upto) # 0
  BY <1>1, <1>3, LoadedFinite, FS_CardinalityType, FS_EmptySet
<1>5. Number(s) = Cardinality(upto)
  BY DEF Number, upto
<1> QED
  BY <1>3, <1>4, <1>5

\* The later section has another number.
LEMMA LaterNumber ==
    ASSUME AllRead, NEW s \in Loaded, NEW t \in Loaded,
           s[1] < t[1] \/ (s[1] = t[1] /\ s[2] < t[2])
    PROVE  Number(s) # Number(t)
<1> DEFINE S == Loaded \cap UpTo(s)
           T == Loaded \cap UpTo(t)
<1>1. /\ s[1] \in Nat /\ s[2] \in Nat /\ t[1] \in Nat /\ t[2] \in Nat
      /\ \A x \in Loaded : x \in AllSections /\ x[1] \in Nat /\ x[2] \in Nat
  BY SectionsAre DEF Loaded
<1>2. S \in SUBSET T /\ t \in T /\ t \notin S
  BY <1>1 DEF UpTo
<1>3. T \in SUBSET Loaded
  OBVIOUS
<1>4. Number(s) = Cardinality(S) /\ Number(t) = Cardinality(T)
  BY DEF Number
<1> HIDE DEF S, T
<1>5. IsFiniteSet(T)
  BY <1>3, LoadedFinite, FS_Subset
<1>6. Cardinality(T) # Cardinality(S)
  BY <1>2, <1>5, FS_Subset
<1> QED
  BY <1>4, <1>6

\* A number is that of one section.
LEMMA NumbersApart ==
    ASSUME AllRead, NEW s \in Loaded, NEW t \in Loaded, Number(s) = Number(t)
    PROVE  s = t
<1>1. /\ s = <<s[1], s[2]>> /\ s[1] \in Nat /\ s[2] \in Nat
      /\ t = <<t[1], t[2]>> /\ t[1] \in Nat /\ t[2] \in Nat
  BY SectionsAre DEF Loaded
<1>2. ~(s[1] < t[1] \/ (s[1] = t[1] /\ s[2] < t[2]))
  BY LaterNumber
<1>3. ~(t[1] < s[1] \/ (t[1] = s[1] /\ t[2] < s[2]))
  BY LaterNumber
<1>4. s[1] = t[1] /\ s[2] = t[2]
  BY <1>1, <1>2, <1>3
<1> QED
  BY <1>1, <1>4

\* The tables agree on a section: its constant is its own, and it is listed there.
LEMMA TablesAgree ==
    ASSUME AllRead, AllWellFormed, NEW s \in Loaded
    PROVE  LET c == <<ConstOf(s), Number(s)>> IN
           /\ c \in Indices /\ \A d \in Indices : d[1] = c[1] => d = c
           /\ c[2] \in DOMAIN Blobs /\ Blobs[c[2]] = NameOf(s)
<1> DEFINE n == Number(s)
<1>1. <<ConstOf(s), n>> \in Indices
  BY DEF Indices
<1>2. ASSUME NEW t \in Loaded, ConstOf(t) = ConstOf(s)
      PROVE  t = s
  <2>1. /\ s \in AllSections /\ t \in AllSections
        /\ HeaderOf(s).type # "null" /\ HeaderOf(t).type # "null"
    BY DEF Loaded
  <2>2. /\ s = <<s[1], s[2]>> /\ t = <<t[1], t[2]>> /\ s[1] \in Units /\ t[1] \in Units
        /\ s[2] \in DOMAIN headers[s[1]] /\ t[2] \in DOMAIN headers[t[1]]
    BY <2>1, SectionsAre
  <2>3. t[1] = s[1] /\ Ident[HeaderOf(t).name] = Ident[HeaderOf(s).name]
    BY <1>2 DEF ConstOf
  <2> DEFINE h == Headers(units[s[1]])
  <2>4. headers[s[1]] = h
    BY <2>2 DEF AllRead
  <2>5. \A j, k \in {m \in DOMAIN h : h[m].type # "null"} : Ident[h[j].name] = Ident[h[k].name] => j = k
    BY <2>2 DEF AllRead, AllWellFormed, WellFormed, ConstantsApart, Units
  <2> HIDE DEF h
  <2>6. t[2] = s[2]
    BY <2>1, <2>2, <2>3, <2>4, <2>5 DEF HeaderOf
  <2> QED
    BY <2>2, <2>3, <2>6
<1>3. \A d \in Indices : d[1] = ConstOf(s) => d = <<ConstOf(s), n>>
  BY <1>2 DEF Indices
<1>4. n \in 1 .. Cardinality(Loaded)
  BY NumbersInRange
<1>5. s = CHOOSE t \in Listed : Listing(t) = n
  <2> HIDE DEF n
  <2>1. \A t \in Loaded : Number(t) = n <=> t = s
    BY NumbersApart DEF n
  <2>2. Listed = Loaded /\ \A t : Listing(t) = Number(t)
    BY DEF Listed, Loaded, Listing, Number
  <2> QED
    BY <2>1, <2>2
<1>6. n \in DOMAIN Blobs /\ Blobs[n] = NameOf(s)
  BY <1>4, <1>5 DEF Blobs, Listed, Loaded
<1> HIDE DEF n
<1> QED
  BY <1>1, <1>3, <1>6 DEF n

\* Numbers that leave the same remainder differ by a multiple.
LEMMA SameRemainder ==
    ASSUME NEW x \in Int, NEW y \in Int, NEW m \in Nat \ {0}
    PROVE  x % m = y % m <=> \E k \in Int : x - y = m * k
<1> DEFINE p == x \div m
           q == y \div m
           a == x % m
           b == y % m
<1>1. /\ p \in Int /\ q \in Int /\ a \in 0 .. m - 1 /\ b \in 0 .. m - 1
      /\ x = (m * p) + a /\ y = (m * q) + b
  BY Z3
<1> HIDE DEF p, q, a, b
<1>2. ASSUME a = b
      PROVE  \E k \in Int : x - y = m * k
  <2>1. x - y = m * (p - q) /\ p - q \in Int
    BY <1>1, <1>2, Z3
  <2> QED
    BY <2>1
<1>3. ASSUME NEW k \in Int, x - y = m * k
      PROVE  a = b
  <2> DEFINE d == k + q - p
  <2>1. a - b = m * d /\ d \in Int
    <3> DEFINE mp == m * p
               mq == m * q
               mk == m * k
    <3>1. mp \in Int /\ mq \in Int /\ mk \in Int /\ d \in Int
      BY <1>1, Z3
    <3>2. m * d = mk + mq - mp
      BY <1>1, Z3
    <3>3. x = mp + a /\ y = mq + b /\ x - y = mk
      BY <1>1, <1>3
    <3> HIDE DEF mp, mq, mk
    <3>4. a - b = mk + mq - mp
      BY <1>1, <3>1, <3>3
    <3> QED
      BY <3>1, <3>2, <3>4
  <2> HIDE DEF d
  <2>2. d = 0
    <3>1. CASE d >= 1
      <4>1. m * d >= m
        BY <2>1, <3>1, Z3
      <4> QED
        BY <1>1, <2>1, <4>1
    <3>2. CASE d =< -1
      <4>1. m * d =< -m
        BY <2>1, <3>2, Z3
      <4> QED
        BY <1>1, <2>1, <4>1
    <3> QED
      BY <2>1, <3>1, <3>2
  <2> QED
    BY <1>1, <2>1, <2>2
<1> QED
  BY <1>2, <1>3 DEF a, b

\* What is left of a number in a register.
LEMMA CastIs ==
    ASSUME NEW x \in Int
    PROVE  Cast(x) \in Int /\ \E q \in Int : x = ((Half * Half) * q) + Cast(x)
<1> DEFINE n == Half * Half
<1>1. n \in Nat \ {0}
  BY HalfIs
<1>2. Cast(x) = x % n
  BY DEF Cast
<1> HIDE DEF n
<1>3. x % n \in Int /\ x \div n \in Int /\ x = (n * (x \div n)) + (x % n)
  BY <1>1, Z3
<1> QED
  BY <1>2, <1>3, Zenon DEF n

LEMMA CastSame ==
    ASSUME NEW x \in Int, NEW y \in Int
    PROVE  Cast(x) = Cast(y) <=> \E k \in Int : x - y = (Half * Half) * k
<1> DEFINE n == Half * Half
<1>1. n \in Nat \ {0}
  BY HalfIs
<1>2. Cast(x) = x % n /\ Cast(y) = y % n
  BY DEF Cast
<1> HIDE DEF n
<1>3. x % n = y % n <=> \E k \in Int : x - y = n * k
  BY <1>1, SameRemainder
<1> QED
  BY <1>2, <1>3, Zenon DEF n

\* A register that is assigned an address and has a lower half added holds the sum of both
\* halves of another exactly when neither half has changed.
LEMMA BothHalves ==
    ASSUME NEW h, h = Half, NEW g \in Int, NEW v \in Int, NEW f0 \in Int, NEW f1 \in Int,
           f0 =< f1, f1 < f0 + h, NEW b0 \in Int, NEW b1 \in Int, b0 - h < b1, b1 < b0 + h
    PROVE  Cast(Cast(g + Cast(v + f1 * h)) + b1) = Cast(g + v + f0 * h + b0)
               <=> f1 = f0 /\ b1 = b0
<1> DEFINE m == Half * Half
           a == f1 - f0
           d == b1 - b0
           fh == f0 * h
           gh == f1 * h
           ah == a * h
           s == v + gh
           t == Cast(s)
           r == Cast(g + t)
           x == r + b1
           y == g + v + fh + b0
<1>1. h \in Nat \ {0} /\ m \in Nat \ {0} /\ m = h * h
  BY HalvesAre, HalfIs
<1>2. a \in Int /\ d \in Int /\ 0 =< a /\ a < h /\ -h < d /\ d < h
  BY <1>1
<1>3. fh \in Int /\ gh \in Int /\ ah \in Int /\ gh = fh + ah
  BY <1>1, <1>2, Z3
<1>4. ah =< m - h /\ ah >= 0 /\ h =< m /\ (a >= 1 => ah >= h)
  <2> HIDE DEF m, a
  <2> QED
    BY <1>1, <1>2, Z3
<1>5. a = 0 => ah = 0
  BY <1>1
<1>6. (a = 0 /\ d = 0) <=> (f1 = f0 /\ b1 = b0)
  OBVIOUS
<1>7. a = f1 - f0 /\ d = b1 - b0 /\ s = v + gh /\ x = r + b1 /\ y = g + v + fh + b0
  OBVIOUS
<1> HIDE DEF m, a, d, fh, gh, ah
<1>8. s \in Int
  BY <1>3
<1>9. t \in Int /\ \E q \in Int : s = (m * q) + t
  <2> HIDE DEF s
  <2> QED
    BY <1>8, CastIs DEF m
<1>10. PICK q \in Int : s = (m * q) + t
  BY <1>9
<1>11. r \in Int /\ \E e \in Int : g + t = (m * e) + r
  <2>1. g + t \in Int
    BY <1>9
  <2> HIDE DEF t
  <2> QED
    BY <2>1, CastIs DEF m
<1>12. PICK e \in Int : g + t = (m * e) + r
  BY <1>11
<1> DEFINE n  == q + e
           mq == m * q
           me == m * e
           mn == m * n
<1>13. n \in Int /\ mq \in Int /\ me \in Int /\ mn \in Int /\ mn = mq + me
  BY <1>1, Z3
<1>14. s = mq + t /\ g + t = me + r
  BY <1>10, <1>12
<1>15. x \in Int /\ y \in Int
  <2> HIDE DEF r
  <2> QED
    BY <1>3, <1>11
<1> HIDE DEF s, t, r, x, y, mq, me, n
<1>16. x - y = ah + d - mn
  <2> HIDE DEF mn
  <2> QED
    BY <1>2, <1>3, <1>7, <1>9, <1>11, <1>13, <1>14, <1>15
<1>17. Cast(x) = Cast(y) <=> \E k \in Int : x - y = m * k
  BY <1>15, CastSame, Zenon DEF m
<1>18. ASSUME NEW k \in Int, x - y = m * k
       PROVE  a = 0 /\ d = 0
  <2> DEFINE l == k + n
             ml == m * l
  <2>1. l \in Int /\ ml \in Int /\ ml = (m * k) + mn
    BY <1>1, <1>13, Z3
  <2>2. \A o \in Int : (o >= 1 => m * o >= m) /\ (o =< -1 => m * o =< -m) /\ (o = 0 => m * o = 0)
    BY <1>1, Z3
  <2>3. (l >= 1 => ml >= m) /\ (l =< -1 => ml =< -m) /\ (l = 0 => ml = 0)
    BY <2>1, <2>2
  <2> HIDE DEF l, ml, mn
  <2>4. ml = ah + d
    <3> DEFINE mk == m * k
    <3>1. ml = mk + mn /\ x - y = mk
      BY <1>18, <2>1
    <3> HIDE DEF mk
    <3> QED
      BY <1>2, <1>3, <1>13, <1>15, <1>16, <2>1, <3>1
  <2>5. l = 0 /\ ml = 0
    BY <1>1, <1>2, <1>3, <1>4, <2>1, <2>3, <2>4
  <2> QED
    BY <1>1, <1>2, <1>3, <1>4, <1>5, <2>4, <2>5
<1>19. ASSUME a = 0, d = 0
       PROVE  \E k \in Int : x - y = m * k
  <2> DEFINE k == -n
             mk == m * k
  <2>1. k \in Int /\ mk \in Int /\ mk = -mn
    BY <1>1, <1>13, Z3
  <2> HIDE DEF k, mk, mn
  <2>2. x - y = mk
    BY <1>3, <1>5, <1>13, <1>16, <1>19, <2>1
  <2> QED
    BY <2>1, <2>2 DEF mk
<1>20. Cast(x) = Cast(y) <=> a = 0 /\ d = 0
  BY <1>17, <1>18, <1>19
<1> QED
  BY <1>6, <1>20, Zenon DEF x, y, r, t, s, fh, gh

\* Immediates as signed numbers: closer than Half, and equal if their bits are.
LEMMA SignedAre ==
    ASSUME NEW f \in 0 .. Half - 1, NEW g \in 0 .. Half - 1
    PROVE  /\ Signed(f) \in Int /\ Signed(g) \in Signed(f) - Half + 1 .. Signed(f) + Half - 1
           /\ Signed(g) = Signed(f) <=> g = f
<1> DEFINE h == Half
           c == h \div 2
<1>1. h \in Nat \ {0}
  BY HalvesAre
<1> HIDE DEF h
<1>2. c \in Int /\ 0 =< c /\ c =< h
  BY <1>1
<1>3. /\ Signed(f) = IF f < c THEN f ELSE f - h
      /\ Signed(g) = IF g < c THEN g ELSE g - h
  BY DEF Signed, h
<1>4. f \in 0 .. h - 1 /\ g \in 0 .. h - 1
  BY DEF h
<1> HIDE DEF c
<1>5. /\ Signed(f) \in Int /\ Signed(g) \in Signed(f) - h + 1 .. Signed(f) + h - 1
      /\ Signed(g) = Signed(f) <=> g = f
  BY <1>1, <1>2, <1>3, <1>4
<1> QED
  BY <1>5 DEF h

\* What relocating makes of a half of an address in a function.
LEMMA HalfIsMoved ==
    ASSUME units \in Projects, AllWellFormed, NEW u \in Units, NEW r \in Range(Relocs(u)),
           r.section = ".text", r.type \in {"high16", "low16"},
           NEW x \in Functions(u), r.offset \in x.start .. x.end - 1
    PROVE  LET f == units[u].words[r.offset].field
               g == Moved(u, r.offset).field IN
           /\ f \in 0 .. Half - 1 /\ g \in f .. Half - 1 /\ r.symbol.value \in Nat
           /\ Untouched(u, r) <=> g = f
<1> DEFINE w == units[u].words[r.offset]
           n == Or(w.field, HalfOf(r))
<1>1. IsUnit(units[u])
  BY UnitIs
<1>2. r \in Range(units[u].relocs) /\ r \in Relocation
  BY <1>1 DEF Relocs, IsUnit, Range
<1>3. w \in Instruction /\ w.field < Half /\ (w.kind # "plain" => w.kind = "jal" /\ r.type = "26")
  BY <1>1, <1>2 DEF IsUnit
<1>4. /\ Apply(w, r) = [w EXCEPT !.field = n] /\ n \in w.field .. Half - 1
      /\ Moved(u, r.offset) = Apply(w, r)
  BY <1>2, <1>3, ApplyIs, HalfFound
<1> HIDE DEF n
<1>5. w.field \in Nat /\ Half \in Nat /\ r.symbol.value \in Nat
  BY <1>2, <1>3, HalvesAre DEF Instruction
<1>6. [w EXCEPT !.field = n].field = n /\ ([w EXCEPT !.field = n] = w <=> n = w.field)
  BY <1>3 DEF Instruction
<1>7. Untouched(u, r) <=> n = w.field
  BY <1>4, <1>6 DEF Untouched
<1> QED
  BY <1>3, <1>4, <1>5, <1>6, <1>7

\* The upper halves of data addresses in an emitted function get their pointers, but in
\* the slots of calls; a pointer finds the section meant by a constant of one generated
\* file in the table of the other; and the halves add up to the host's address exactly
\* when the symbol adds no bit to them.
THEOREM PointersGetThere == ASSUME AllWellFormed
                            PROVE  Spec => []PointersReach
<1>1. ASSUME LinkerInv, PointersInv, AllWellFormed
      PROVE  PointersReach
  <2> SUFFICES ASSUME pc = "done", NEW u \in Units, NEW x \in Functions(u),
                      NEW hi \in Uppers(units[u]), Emitted(x), hi.offset \in x.start .. x.end - 1
               PROVE  LET made == {y \in injected : y.at = <<u, hi.offset>>} IN
                      /\ made = {} <=> InCallSlot(u, hi.offset)
                      /\ \A y \in made : \E c \in indices :
                            /\ c[1] = y.index /\ \A d \in indices : d[1] = c[1] => d = c
                            /\ c[2] \in DOMAIN blobs /\ blobs[c[2]] = <<u, hi.symbol.section>>
                            /\ \A lo \in Pairs(u, x, hi) :
                                  Cast(Formed(u, y, c[2], lo)) = Cast(Wanted(u, hi, lo))
                                      <=> Untouched(u, hi) /\ Untouched(u, lo)
    BY DEF PointersReach
  <2>1. AllRead /\ indices = Indices /\ blobs = Blobs
    <3>1. units \in Projects /\ unit = Len(units)
      BY <1>1 DEF LinkerInv, Places
    <3>2. Units = 1 .. Len(units) /\ Len(units) \in Nat
      BY <3>1, UnitIs DEF Units
    <3>3. \A v \in Units : headers[v] = Headers(units[v])
      BY <1>1, <3>1, <3>2 DEF LinkerInv, HeadersKept
    <3> QED
      BY <1>1, <3>1, <3>3 DEF AllRead, PointersInv, TablesWritten
  <2>2. units \in Projects
    BY <2>1 DEF AllRead
  <2>3. PICK j \in DOMAIN units[u].splits : x = units[u].splits[j]
    BY DEF Functions, Texts, Range
  <2>4. \A p : Passed(u, j, p)
    BY DEF Passed
  <2>5. ~InCallSlot(u, hi.offset) => PointerTo(u, hi) \in injected
    BY <1>1, <2>3, <2>4 DEF PointersInv, UppersInjected
  <2>6. PointerTo(u, hi).at = <<u, hi.offset>>
    BY DEF PointerTo
  <2>7. ASSUME NEW y \in injected, y.at = <<u, hi.offset>>
        PROVE  y = PointerTo(u, hi) /\ ~InCallSlot(u, hi.offset)
    <3>1. PICK v \in Units : \E h \in Uppers(units[v]) : y = PointerTo(v, h) /\ ~InCallSlot(v, h.offset)
      BY <1>1 DEF PointersInv, InjectedKnown
    <3>2. PICK h \in Uppers(units[v]) : y = PointerTo(v, h) /\ ~InCallSlot(v, h.offset)
      BY <3>1
    <3>3. y.at = <<v, h.offset>>
      BY <3>2 DEF PointerTo
    <3>4. v = u /\ h.offset = hi.offset
      BY <2>7, <3>3
    <3>5. h = hi
      BY <2>2, <3>4, UpperAt
    <3> QED
      BY <3>2, <3>4, <3>5
  <2>8. /\ units[u].format = "xff" /\ hi.section = ".text" /\ hi.type = "high16"
        /\ hi \in Range(Relocs(u)) /\ hi.symbol.section \in KnownNames
        /\ \E s \in Range(units[u].sections) : s.name = hi.symbol.section
    BY <1>1, <2>2, UpperIs
  <2>9. PICK k \in DOMAIN headers[u] : /\ headers[u][k].name = hi.symbol.section
                                       /\ headers[u][k].type # "null"
    BY <2>1, <2>2, <2>8, SectionOf DEF AllRead
  <2> DEFINE s == <<u, k>>
             c == <<ConstOf(s), Number(s)>>
             y == PointerTo(u, hi)
  <2>10. s \in Loaded /\ ConstOf(s) = <<u, Ident[hi.symbol.section]>> /\ NameOf(s) = <<u, hi.symbol.section>>
    BY <2>9 DEF Loaded, AllSections, HeaderOf, ConstOf, NameOf, Units
  <2>11. y.index = <<u, Ident[hi.symbol.section]>>
    BY DEF PointerTo
  <2> HIDE DEF s
  <2>12. /\ c \in indices /\ c[1] = y.index /\ \A d \in indices : d[1] = c[1] => d = c
         /\ c[2] \in DOMAIN blobs /\ blobs[c[2]] = <<u, hi.symbol.section>>
    BY <1>1, <2>1, <2>10, <2>11, TablesAgree
  <2>13. ASSUME NEW lo \in Pairs(u, x, hi)
         PROVE  Cast(Formed(u, y, c[2], lo)) = Cast(Wanted(u, hi, lo))
                    <=> Untouched(u, hi) /\ Untouched(u, lo)
    <3> DEFINE h  == Half
               g  == Host(u, hi.symbol.section)
               v  == hi.symbol.value
               f0 == units[u].words[hi.offset].field
               f1 == Moved(u, hi.offset).field
               l0 == units[u].words[lo.offset].field
               l1 == Moved(u, lo.offset).field
               b0 == Signed(l0)
               b1 == Signed(l1)
    <3>1. /\ lo \in Range(Relocs(u)) /\ lo.section = ".text" /\ lo.type = "low16"
          /\ lo.offset \in x.start .. x.end - 1
      BY DEF Pairs
    <3>2. image[u][lo.offset] = Moved(u, lo.offset)
      BY <1>1, <2>3, <2>4, <3>1 DEF PointersInv, CodeMoved
    <3>3. y.offset = Cast(v + f1 * h)
      BY DEF PointerTo, Cast
    <3>4. blobs[c[2]][1] = u /\ blobs[c[2]][2] = hi.symbol.section
      BY <2>12
    <3>5. /\ Cast(Formed(u, y, c[2], lo)) = Cast(Cast(g + Cast(v + f1 * h)) + b1)
          /\ Cast(Wanted(u, hi, lo)) = Cast(g + v + f0 * h + b0)
      <4>1. Formed(u, y, c[2], lo) = Cast(Host(blobs[c[2]][1], blobs[c[2]][2]) + y.offset)
                                         + Signed(image[u][lo.offset].field)
        BY DEF Formed, Assigned
      <4> HIDE DEF c, y
      <4>2. Formed(u, y, c[2], lo) = Cast(g + Cast(v + f1 * h)) + b1
        BY <3>2, <3>3, <3>4, <4>1, Zenon
      <4>3. Wanted(u, hi, lo) = g + v + f0 * h + b0
        BY DEF Wanted
      <4> HIDE DEF g, v, f0, f1, b0, b1
      <4> QED
        BY <4>2, <4>3, Zenon
    <3>6. /\ f0 \in 0 .. h - 1 /\ f1 \in f0 .. h - 1 /\ v \in Nat
          /\ Untouched(u, hi) <=> f1 = f0
      BY <1>1, <2>2, <2>8, HalfIsMoved
    <3>7. /\ l0 \in 0 .. h - 1 /\ l1 \in l0 .. h - 1
          /\ Untouched(u, lo) <=> l1 = l0
      BY <1>1, <2>2, <3>1, HalfIsMoved
    <3>8. g \in Nat
      BY <2>2, <2>8, HostAssumption DEF Units
    <3>9. h \in Nat \ {0}
      BY HalvesAre
    <3>10. b0 \in Int /\ b1 \in b0 - h + 1 .. b0 + h - 1 /\ (b1 = b0 <=> l1 = l0)
      <4>1. l1 \in 0 .. h - 1
        BY <3>7, <3>9
      <4> QED
        BY <3>7, <4>1, SignedAre
    <3> HIDE DEF h, g, v, f0, f1, l0, l1, b0, b1
    <3>11. /\ f0 \in Int /\ f1 \in Int /\ f0 =< f1 /\ f1 < f0 + h /\ g \in Int /\ v \in Int
           /\ b1 \in Int /\ b0 - h < b1 /\ b1 < b0 + h
      BY <3>6, <3>8, <3>9, <3>10
    <3>12. h = Half
      BY DEF h
    <3>13. Cast(Cast(g + Cast(v + f1 * h)) + b1) = Cast(g + v + f0 * h + b0)
               <=> f1 = f0 /\ b1 = b0
      BY <3>10, <3>11, <3>12, BothHalves
    <3> HIDE DEF c, y
    <3> QED
      BY <3>5, <3>6, <3>7, <3>10, <3>13, Zenon
  <2> HIDE DEF y, c
  <2>14. ASSUME NEW z \in injected, z.at = <<u, hi.offset>>
         PROVE  \E d \in indices :
                   /\ d[1] = z.index /\ \A e \in indices : e[1] = d[1] => e = d
                   /\ d[2] \in DOMAIN blobs /\ blobs[d[2]] = <<u, hi.symbol.section>>
                   /\ \A lo \in Pairs(u, x, hi) :
                         Cast(Formed(u, z, d[2], lo)) = Cast(Wanted(u, hi, lo))
                             <=> Untouched(u, hi) /\ Untouched(u, lo)
    <3>1. z = y
      BY <2>7, <2>14 DEF y
    <3> QED
      BY <2>12, <2>13, <3>1
  <2> QED
    BY <2>5, <2>6, <2>7, <2>14
<1> QED
  BY <1>1, LinkerInvariant, PointersInvariant, PTL
=============================================================================
