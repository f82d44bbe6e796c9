------------------------------- MODULE Linker -------------------------------
(****************************************************************************)
(* How the recompiler links functions and data: main, process_code_unit,    *)
(* process_section and the tables main writes, of src/ps2_rc/main.c; the    *)
(* types of sections of src/elf/elf.c; the relocation pass,                 *)
(* find_jump_to_function and the pointers to section data of                *)
(* src/ps2_rc/cemitter.c.  Units are processed one after the other, and the *)
(* code of a split is relocated in place just before it is emitted.  All    *)
(* splits are known from the start, the sections of a unit only once it has *)
(* been loaded.                                                             *)
(*                                                                          *)
(* Offsets and addresses count instructions.  A unit is                     *)
(*   format    "elf", "xff" or another, which is not read,                  *)
(*   sections  its section headers: name, type and address,                 *)
(*   splits    its splits: name, start and end in their section, and flags, *)
(*   words     the instructions of .text by offset, with the jump target or *)
(*             immediate of each,                                           *)
(*   relocs    the relocations of all its sections, each with the section   *)
(*             it is for, its offset there and the symbol it refers to.     *)
(****************************************************************************)
EXTENDS Integers, Sequences, FiniteSetsExt, SequencesExt

CONSTANTS
    Projects, \* what may be linked: sequences of units
    Word,     \* the size of an instruction, 4 in the code
    HalfBits, \* bits of an immediate, 16; a pointer has twice as many
    Ident,    \* section_name_to_index: a section's name, dots replaced
    Host(_, _), \* where the host puts the data of a section of a unit
    None,     \* no match
    Nobody    \* the empty split find_static_address returns

ASSUME WordAssumption == Word \in Nat \ {0}
ASSUME HalfAssumption == HalfBits \in Nat \ {0} /\ 2 ^ HalfBits \in Nat \ {0}
ASSUME NoneAssumption == None # Nobody

Half == 2 ^ HalfBits

\* What the files of a project hold.
SectionHeader == [name : STRING, type : STRING, address : Nat]
SplitRecord   == [name : STRING, start : Nat, end : Nat, section : STRING,
                  generate : BOOLEAN, lib : BOOLEAN]
Instruction   == [kind : {"plain", "jump", "jal", "jalr"}, field : Nat]
SymbolRecord  == [absolute : BOOLEAN, defined : BOOLEAN, name : {None} \cup STRING,
                  value : 0 .. Half * Half - 1, section : STRING]
Relocation    == [section : STRING, offset : Nat, symbol : SymbolRecord,
                  type : {"26", "high16", "low16", "32"}]

\* Functions are in .text and not empty, with the slots of their transfers, which
\* hold no other transfer; there is one relocation at most at a place, at a call
\* one of a jump and at another transfer none; halves of addresses are those of
\* immediates; relocations and the symbols a unit defines are of sections it has;
\* only section symbols have no name, and executables no relocations.
IsUnit(x) ==
    /\ x.sections \in Seq(SectionHeader) /\ x.splits \in Seq(SplitRecord) /\ x.relocs \in Seq(Relocation)
    /\ DOMAIN x.words \subseteq Nat /\ \A p \in DOMAIN x.words : x.words[p] \in Instruction
    /\ \A y \in Range(x.splits) :
          /\ y \notin {None, Nobody} /\ y.name # None /\ y.start < y.end
          /\ y.section = ".text" =>
                \A p \in y.start .. y.end - 1 :
                    /\ p \in DOMAIN x.words
                    /\ x.words[p].kind # "plain" =>
                          p + 1 < y.end /\ x.words[p + 1].kind = "plain"
    /\ x.format = "elf" => /\ \E s \in Range(x.sections) : s.name = ".text"
                           /\ \A s \in Range(x.sections) : s.name = ".text" => s.type # "null"
    /\ x.format # "xff" => x.relocs = <<>>
    /\ \A r \in Range(x.relocs) :
          /\ r # None /\ (r.symbol.absolute => r.symbol.name # None)
          /\ r.section = ".text" => r.offset \in DOMAIN x.words
          /\ r.section = ".text" /\ x.words[r.offset].kind # "plain" =>
                x.words[r.offset].kind = "jal" /\ r.type = "26"
          /\ r.section = ".text" /\ r.type \in {"high16", "low16"} =>
                x.words[r.offset].field < Half
          /\ \E s \in Range(x.sections) : s.name = r.section
          /\ r.symbol.defined /\ ~r.symbol.absolute =>
                \E s \in Range(x.sections) : s.name = r.symbol.section
    /\ \A j, k \in DOMAIN x.relocs :
          <<x.relocs[j].section, x.relocs[j].offset>> =
              <<x.relocs[k].section, x.relocs[k].offset>> => j = k

ASSUME ProjectsAssumption ==
    \A project \in Projects : /\ project # <<>> /\ DOMAIN project = 1 .. Len(project)
                              /\ \A u \in DOMAIN project : IsUnit(project[u])
ASSUME HostAssumption ==
    \A project \in Projects : \A u \in DOMAIN project :
        \A s \in Range(project[u].sections) : Host(u, s.name) \in Nat

VARIABLES
    units,        \* context->code_units
    pc,           \* where main is
    unit, section, split, \* the unit, section and split it works on
    i,            \* the instruction being emitted
    headers,      \* the section headers of each unit, once it is loaded
    image,        \* the .text of each unit in memory
    calls,        \* what each emitted jal calls: None if it failed
    injected,     \* the pointers to section data in emitted instructions
    failed,       \* failed_jumps
    cases,        \* the cases of FunctionLookup and jalr
    indices,      \* the _section_index constants of sections.h
    blobs         \* __ps2_rc_sections of sections.c

place  == <<pc, unit, section, split, i>>
tables == <<cases, indices, blobs>>
vars   == <<units, place, headers, image, calls, injected, failed, tables>>

This == units[unit].splits[split]

Init ==
    /\ units \in Projects
    /\ pc = "load" /\ unit = 1 /\ section = 1 /\ split = 1 /\ i = 0
    /\ headers = [u \in DOMAIN units |-> <<>>]
    /\ image = [u \in DOMAIN units |-> units[u].words]
    /\ calls = {} /\ injected = {} /\ failed = <<>>
    /\ cases = {} /\ indices = {} /\ blobs = <<>>

-----------------------------------------------------------------------------
(* Sections.  An ELF says what type a section has; that of an XFF's follows  *)
(* from its name.                                                            *)

KnownNames == {".text", ".bss", ".comment", ".data", ".rodata", ".text_nop", ".reginfo",
               ".ctors", ".dtors", ".eh_frame", ".lit4", ".data_nop", ".sdata", ".sbss",
               ".mdebug.eabi64", ".shstrtab", ".rel.text", ".rela.text", ".strtab",
               ".symtab", ".rel.rodata", ".rela.rodata", ".rel.data", ".rela.data"}

TypeOf(name) ==
    CASE name = ".rela.text"   -> ".rel.text"
      [] name = ".rela.rodata" -> ".rel.rodata"
      [] name = ".rela.data"   -> ".rel.data"
      [] name \notin KnownNames -> "null"
      [] OTHER -> name

HeaderType(type) ==
    CASE type = "null"               -> "null"
      [] type \in {".bss", ".sbss"}  -> "nobits"
      [] type = ".comment"           -> "note"
      [] type = ".shstrtab"          -> "strtab"
      [] type = ".symtab"            -> "symtab"
      [] OTHER                       -> "progbits"

FromXff(s) == [s EXCEPT !.type = HeaderType(TypeOf(s.name)), !.address = 0]

Headers(x) == CASE x.format = "elf" -> x.sections
                [] x.format = "xff" -> [k \in DOMAIN x.sections |-> FromXff(x.sections[k])]
                [] OTHER -> <<>>

\* Only an XFF's relocations are read; which section one is for is not kept.
Relocs(u) == IF units[u].format = "xff" THEN units[u].relocs ELSE <<>>

-----------------------------------------------------------------------------
(* The driver. *)

\* process_code_unit reads a unit's headers, relocations and symbols.
Load ==
    /\ pc = "load"
    /\ headers' = [headers EXCEPT ![unit] = Headers(units[unit])]
    /\ pc' = "section" /\ section' = 1
    /\ UNCHANGED <<units, unit, split, i, image, calls, injected, failed, tables>>

Processed(s) == s.type # "null" /\ s.name = ".text"

PassSection ==
    /\ pc = "section" /\ section \in DOMAIN headers[unit]
    /\ ~Processed(headers[unit][section])
    /\ section' = section + 1
    /\ UNCHANGED <<units, pc, unit, split, i, headers, image, calls, injected, failed, tables>>

EnterSection ==
    /\ pc = "section" /\ section \in DOMAIN headers[unit]
    /\ Processed(headers[unit][section])
    /\ pc' = "split" /\ split' = 1
    /\ UNCHANGED <<units, unit, section, i, headers, image, calls, injected, failed, tables>>

Emitted(x) == x.section = ".text" /\ x.generate /\ ~x.lib

\* process_section passes over what is not to be generated.
Skip ==
    /\ pc = "split" /\ split \in DOMAIN units[unit].splits
    /\ ~Emitted(This)
    /\ split' = split + 1
    /\ UNCHANGED <<units, pc, unit, section, i, headers, image, calls, injected, failed, tables>>

Bit(n, k) == (n \div 2 ^ k) % 2 = 1
Or(a, b)  == MapThenSumSet(LAMBDA k : IF Bit(a, k) \/ Bit(b, k) THEN 2 ^ k ELSE 0,
                           0 .. HalfBits - 1)
ASSUME OrAssumption == \A a, b \in 0 .. Half - 1 : Or(a, b) \in a .. Half - 1

\* A jump counts instructions and a symbol's value counts bytes; the halves of
\* an address are merged into immediates, not added to them.
Apply(w, r) ==
    CASE r.type = "26"     -> [w EXCEPT !.field = @ + Word * r.symbol.value]
      [] r.type = "high16" -> [w EXCEPT !.field = Or(@, r.symbol.value \div Half)]
      [] r.type = "low16"  -> [w EXCEPT !.field = Or(@, r.symbol.value % Half)]
      [] r.type = "32"     -> [kind |-> "plain", field |-> r.symbol.value]

First(seq, Test(_)) ==
    LET hits == {j \in DOMAIN seq : Test(seq[j])}
    IN  IF hits = {} THEN None ELSE seq[Min(hits)]
FirstFound(seq) == First(seq, LAMBDA y : y # None)

\* The first relocation at an offset, in whichever section.
RelocAt(p) == First(Relocs(unit), LAMBDA r : r.offset = p)

Relocate ==
    /\ pc = "split" /\ split \in DOMAIN units[unit].splits
    /\ Emitted(This)
    /\ image' = [image EXCEPT ![unit] = [p \in DOMAIN @ |->
                    IF p \in This.start .. This.end - 1 /\ RelocAt(p) # None
                    THEN Apply(@[p], RelocAt(p)) ELSE @[p]]]
    /\ pc' = "emit" /\ i' = This.start
    /\ UNCHANGED <<units, unit, section, split, headers, calls, injected, failed, tables>>

EndSplit ==
    /\ pc = "emit" /\ i >= This.end
    /\ pc' = "split" /\ split' = split + 1
    /\ UNCHANGED <<units, unit, section, i, headers, image, calls, injected, failed, tables>>

EndSection ==
    /\ pc = "split" /\ split \notin DOMAIN units[unit].splits
    /\ pc' = "section" /\ section' = section + 1
    /\ UNCHANGED <<units, unit, split, i, headers, image, calls, injected, failed, tables>>

\* Faulty: one unit too many.
EndUnitLate ==
    /\ pc = "section" /\ section \notin DOMAIN headers[unit]
    /\ IF unit <= Len(units) THEN pc' = "load" /\ unit' = unit + 1
                             ELSE pc' = "tables" /\ unit' = unit
    /\ UNCHANGED <<units, section, split, i, headers, image, calls, injected, failed, tables>>

EndUnit ==
    /\ pc = "section" /\ section \notin DOMAIN headers[unit]
    /\ IF unit < Len(units) THEN pc' = "load" /\ unit' = unit + 1
                            ELSE pc' = "tables" /\ unit' = unit
    /\ UNCHANGED <<units, section, split, i, headers, image, calls, injected, failed, tables>>

\* write_functions: the same functions become cases of both tables.
Tabled(s, x) == /\ s.address # 0 /\ s.name = ".text"
                /\ x.section = ".text" /\ x.start # 0 /\ ~x.lib

CasesOf(u, s) == {<<s.address + x.start, x.name>> :
                     x \in {y \in Range(units[u].splits) : Tabled(s, y)}}
Cases == UNION {UNION {CasesOf(u, s) : s \in Range(headers[u])} : u \in DOMAIN units}

\* write_sections_header numbers the sections that have a type and defines a
\* constant for each.  The number of s is how many of them there are up to it.
AllSections == UNION {{u} \X DOMAIN headers[u] : u \in DOMAIN units}
HeaderOf(s) == headers[s[1]][s[2]]
UpTo(s)     == {t \in AllSections : t[1] < s[1] \/ (t[1] = s[1] /\ t[2] =< s[2])}
ConstOf(s)  == <<s[1], Ident[HeaderOf(s).name]>>
Loaded      == {s \in AllSections : HeaderOf(s).type # "null"}
Number(s)   == Cardinality(Loaded \cap UpTo(s))
Indices     == {<<ConstOf(s), Number(s)>> : s \in Loaded}

\* Faulty: the sections without a type are listed too.
ListedAll == AllSections

\* write_sections lists data in a loop of its own.
NameOf(s)   == <<s[1], HeaderOf(s).name>>
Listed      == {s \in AllSections : HeaderOf(s).type # "null"}
Listing(s) == Cardinality(Listed \cap UpTo(s))
Blobs       == [n \in 1 .. Cardinality(Listed) |->
                   NameOf(CHOOSE s \in Listed : Listing(s) = n)]

WriteTables ==
    /\ pc = "tables"
    /\ cases' = Cases /\ indices' = Indices /\ blobs' = Blobs
    /\ pc' = "done"
    /\ UNCHANGED <<units, unit, section, split, i, headers, image, calls, injected, failed>>

-----------------------------------------------------------------------------
(* find_jump_to_function, and the emission of one instruction. *)

Here   == image[unit][i]
Target == Here.field

\* The address of the section being emitted, whichever unit a split is in.
Offset == headers[unit][section].address

\* Faulty: data splits are not told from functions, or offsets are taken for
\* the address of the unit that is searched.
AtTargetAnySection(u) == First(units[u].splits, LAMBDA x : Target \in {x.start, x.start + Offset})
AtTargetOffset(u) == First(units[u].splits, LAMBDA x : x.section = ".text" /\ Target = x.start)

\* A split is taken to start at the target if its offset does, or its offset
\* from the section being emitted.
AtTarget(u) ==
    First(units[u].splits, LAMBDA x : x.section = ".text" /\ Target \in {x.start, x.start + Offset})

Anywhere == FirstFound([u \in DOMAIN units |-> AtTarget(u)])

\* Faulty: only the first section of a unit is tried.
StaticFirst(value) ==
    LET InUnit(u) == IF headers[u] = <<>> THEN None
                     ELSE First(units[u].splits, LAMBDA x : x.start + headers[u][1].address = value)
        found == FirstFound([u \in DOMAIN units |-> InUnit(u)])
    IN  IF found = None THEN Nobody ELSE found

\* find_static_address: any split, at any section of the units loaded so far.
Static(value) ==
    LET InSection(u, s) == First(units[u].splits, LAMBDA x : x.start + s.address = value)
        InUnit(u) == FirstFound([k \in DOMAIN headers[u] |-> InSection(u, headers[u][k])])
        found == FirstFound([u \in DOMAIN units |-> InUnit(u)])
    IN  IF found = None THEN Nobody ELSE found

\* The symbols of all relocations at the jump, in order; a section symbol has
\* no name and is matched with splits of its section only.
ByName(symbol) ==
    First(units[unit].splits,
          LAMBDA x : /\ symbol.name = None => TypeOf(symbol.section) \in {"null", x.section}
                     /\ x.name = symbol.name \/ x.start = Target)

BySymbol ==
    LET found(r) == IF r.offset # i THEN None
                    ELSE IF r.symbol.absolute THEN Static(r.symbol.value)
                    ELSE ByName(r.symbol)
    IN  FirstFound([k \in DOMAIN Relocs(unit) |-> found(Relocs(unit)[k])])

Callee == FirstFound(<<AtTarget(unit), BySymbol, Anywhere>>)

\* The end of process_instruction: the instruction at p gets a pointer into
\* the section whose index is the constant named, by the relocation found at a.
\* When the function runs, it assigns the register Cast(data + offset), where
\* data is the host's address of the section with that index.
Cast(address) == address % (Half * Half)

Pointer(p, symbol) ==
    [at |-> <<unit, p>>, index |-> <<unit, Ident[symbol.section]>>,
     offset |-> (symbol.value + image[unit][p].field * Half) % (Half * Half)]
Assigned(x, index) == Cast(Host(blobs[index][1], blobs[index][2]) + x.offset)

Inject(p, a) ==
    LET r == RelocAt(a)
    IN  IF r # None /\ r.type = "high16" /\ ~r.symbol.absolute
        THEN injected \cup {Pointer(p, r.symbol)} ELSE injected

Emit(kinds) == pc = "emit" /\ i < This.end /\ Here.kind \in kinds

EmitPlain ==
    /\ Emit({"plain"})
    /\ injected' = Inject(i, i)
    /\ i' = i + 1
    /\ UNCHANGED <<units, pc, unit, section, split, headers, image, calls, failed, tables>>

\* Branches and returns look the relocation of their slot up at the slot, jalr
\* at itself.
SlotAddress == IF Here.kind = "jump" THEN i + 1 ELSE i

EmitTransfer ==
    /\ Emit({"jump", "jalr"})
    /\ injected' = Inject(i + 1, SlotAddress)
    /\ i' = i + 2
    /\ UNCHANGED <<units, pc, unit, section, split, headers, image, calls, failed, tables>>

\* So do jal and j.
EmitCall ==
    /\ Emit({"jal"})
    /\ Callee \notin {None, Nobody}
    /\ calls' = calls \cup {[from |-> <<unit, i>>, to |-> Callee.name]}
    /\ injected' = Inject(i + 1, i)
    /\ i' = i + 2
    /\ UNCHANGED <<units, pc, unit, section, split, headers, image, failed, tables>>

\* A jump that is not found is recorded, its slot is dropped, and what has become
\* of the instruction goes through the end of process_instruction, relocation
\* included: it is written as a __mips_asm_jal of no function, which does not
\* compile.
FailJump ==
    /\ Emit({"jal"})
    /\ Callee = None
    /\ failed' = Append(failed, Target)
    /\ calls' = calls \cup {[from |-> <<unit, i>>, to |-> None]}
    /\ injected' = Inject(i + 1, i)
    /\ i' = i + 2
    /\ UNCHANGED <<units, pc, unit, section, split, headers, image, tables>>

\* split_to_function_call of the empty split compares a null return type.
Crash ==
    /\ Emit({"jal"})
    /\ Callee = Nobody
    /\ pc' = "crashed"
    /\ UNCHANGED <<units, unit, section, split, i, headers, image, calls, injected, failed, tables>>

Next == \/ Load \/ PassSection \/ EnterSection \/ Skip \/ Relocate
        \/ EndSplit \/ EndSection \/ EndUnit \/ WriteTables
        \/ EmitPlain \/ EmitTransfer \/ EmitCall \/ FailJump \/ Crash

Spec == Init /\ [][Next]_vars

-----------------------------------------------------------------------------
(* What the files mean, and what is assumed of them. *)

Units        == DOMAIN units
Texts(x)     == {y \in Range(x.splits) : y.section = ".text"}
Functions(u) == Texts(units[u])
Address(x)   == LET text == First(x.sections, LAMBDA s : s.name = ".text")
                IN  IF x.format = "elf" THEN text.address ELSE 0
Base(u)      == Address(units[u])

Starting(u, offset) == {x.name : x \in {y \in Functions(u) : y.start = offset}}
AtAddress(a)        == UNION {Starting(u, a - Base(u)) : u \in {v \in Units : Base(v) # 0}}
Named(name)         == {x.name : x \in {y \in UNION {Functions(v) : v \in Units} : y.name = name}}

\* The relocation of the instruction at an offset of .text.
Meant(x, p) == First(x.relocs, LAMBDA r : r.section = ".text" /\ r.offset = p)

\* The functions the jal at p of unit u may reach.
Meaning(u, p) ==
    LET field == units[u].words[p].field
        r     == Meant(units[u], p)
    IN  IF r = None THEN AtAddress(field)
        ELSE IF r.symbol.absolute THEN AtAddress(r.symbol.value)
        ELSE IF r.symbol.defined THEN Starting(u, field + r.symbol.value)
        ELSE Named(r.symbol.name)

\* The address a jal reaches, if it does not go to its own XFF.
Destination(u, p) ==
    LET r == Meant(units[u], p)
    IN  IF r = None THEN units[u].words[p].field
        ELSE IF r.symbol.absolute THEN r.symbol.value ELSE 0

Jals(x)     == {p \in DOMAIN x.words : x.words[p].kind = "jal"}
Linked(x)   == {p \in Jals(x) : Meant(x, p) # None}
Uppers(x)   == {r \in Range(x.relocs) : r.section = ".text" /\ r.type = "high16" /\ ~r.symbol.absolute}

\* The splits of a unit's .text are listed in order and do not overlap.
InOrder(project) ==
    \A u \in DOMAIN project : LET s == project[u].splits IN
        \A j, k \in DOMAIN s : j < k /\ s[j].section = ".text" /\ s[k].section = ".text"
                                  => s[j].end <= s[k].start

\* One unit, the executable, has addresses.
OneExecutable(project) ==
    \A u, v \in DOMAIN project : Address(project[u]) # 0 /\ Address(project[v]) # 0 => u = v

\* A jump without a relocation that reaches no function does not reach, taken
\* as an offset, the start of one either; nor does an XFF hold such a jump.
NoStrayJumps(project) ==
    \A u \in DOMAIN project : \A p \in Jals(project[u]) \ Linked(project[u]) :
        LET a == project[u].words[p].field
            b == Address(project[u]) IN
        /\ b # 0
        /\ \/ \E x \in Texts(project[u]) : x.start + b = a
           \/ \A v \in DOMAIN project : \A x \in Texts(project[v]) : a \notin {x.start, x.start + b}

\* The number a relocation leaves in a jump is the offset of no split but the
\* one meant: values of section symbols are 0, jumps by name hold no offset,
\* Word times the value is not the start of a split of the unit, nor of any
\* unit if the function meant has no split.
NoStrayRelocations(project) ==
    \A u \in DOMAIN project : \A p \in Linked(project[u]) :
        LET symbol == Meant(project[u], p).symbol
            field  == project[u].words[p].field
            left   == field + Word * symbol.value
            Clear(v) == \A x \in Range(project[v].splits) : left # x.start
        IN  /\ IF symbol.name = None THEN symbol.value = 0 ELSE field = 0
            /\ symbol.value # 0 => Clear(u)
            /\ symbol.absolute \/ \E x \in Texts(project[u]) : x.start = field + symbol.value
                 \/ \A v \in DOMAIN project : Clear(v)

\* An absolute symbol is the address of a function and of nothing else: no
\* other split, at the address of any section, falls on it.
AbsoluteApart(project) ==
    \A u \in DOMAIN project : \A p \in Linked(project[u]) :
        LET symbol == Meant(project[u], p).symbol IN
        symbol.absolute =>
            \A v \in DOMAIN project : \A x \in Range(project[v].splits),
                                         s \in Range(Headers(project[v])) :
                x.start + s.address = symbol.value =>
                    x.section = ".text" /\ s.name = ".text" /\ s.address # 0

\* The symbol a call refers to by name is that of the function it is the offset of.
SymbolsNamed(project) ==
    \A u \in DOMAIN project : \A p \in Linked(project[u]) :
        LET symbol == Meant(project[u], p).symbol IN
        symbol.defined /\ ~symbol.absolute /\ symbol.name # None =>
            \A x \in Range(project[u].splits) :
                x.name = symbol.name <=> x.section = ".text" /\ x.start = symbol.value

\* No module refers to another by name.
NoImports(project) ==
    \A u \in DOMAIN project : \A r \in Range(project[u].relocs) : r.symbol.absolute \/ r.symbol.defined

\* A relocation of another section is at no offset of a function.
RelocationsApart(project) ==
    \A u \in DOMAIN project : \A r \in Range(project[u].relocs), x \in Texts(project[u]) :
        r.section # ".text" => r.offset \notin x.start .. x.end - 1

\* Sections of a unit that have a type have constants of their own.
ConstantsApart(project) ==
    \A u \in DOMAIN project : LET h == Headers(project[u]) IN
        \A j, k \in {n \in DOMAIN h : h[n].type # "null"} :
            Ident[h[j].name] = Ident[h[k].name] => j = k

\* The section of data is known by name, so that it has a type and a number.
DataKnown(project) ==
    \A u \in DOMAIN project : \A r \in Uppers(project[u]) : r.symbol.section \in KnownNames

WellFormed(project) ==
    /\ InOrder(project) /\ OneExecutable(project) /\ NoStrayJumps(project)
    /\ NoStrayRelocations(project) /\ AbsoluteApart(project)
    /\ SymbolsNamed(project) /\ NoImports(project)
    /\ RelocationsApart(project) /\ ConstantsApart(project) /\ DataKnown(project)

-----------------------------------------------------------------------------
(* Properties. *)

\* Types, and that the linker works on a unit and a split there is.
TypeOK ==
    /\ pc \in {"load", "section", "split", "emit", "tables", "done", "crashed"}
    /\ unit \in Units
    /\ pc \in {"split", "emit", "crashed"} => section \in DOMAIN headers[unit]
    /\ pc \in {"emit", "crashed"} => split \in DOMAIN units[unit].splits /\ Emitted(This)
    /\ DOMAIN image = Units
    /\ \A c \in calls : c.from[1] \in Units /\ c.from[2] \in Jals(units[c.from[1]])
    /\ \A x \in injected : x.at[1] = x.index[1] /\ x.offset \in 0 .. Half * Half - 1
    /\ failed \in Seq(Nat)

\* Every emitted jal calls the function that is at its target, by whichever of
\* the three searches, and fails only if no unit has one.
CallsResolved ==
    \A c \in calls : LET m == Meaning(c.from[1], c.from[2]) IN
        IF c.to = None THEN m = {} ELSE c.to \in m

\* A jal and a jalr to the same address reach the same function, and no two
\* cases of a table clash.
DirectAndIndirectAgree ==
    /\ \A c, d \in cases : c[1] = d[1] => c = d
    /\ \A c \in calls, d \in cases :
          d[1] = Destination(c.from[1], c.from[2]) => c.to = d[2]

Signed(half) == IF half < Half \div 2 THEN half ELSE half - Half

\* The lower halves that go with an upper one in function x; the host's address
\* of the data they mean together; what the emitted instructions make of them.
Pairs(u, x, hi) == {lo \in Range(Relocs(u)) :
                       /\ lo.section = ".text" /\ lo.offset \in x.start .. x.end - 1
                       /\ lo.type = "low16" /\ lo.symbol = hi.symbol}
Wanted(u, hi, lo) == Host(u, hi.symbol.section) + hi.symbol.value
                     + units[u].words[hi.offset].field * Half
                     + Signed(units[u].words[lo.offset].field)
Formed(u, p, index, lo) == Assigned(p, index) + Signed(image[u][lo.offset].field)

\* The symbol's value adds no bit to the immediate: as with section symbols,
\* whose value is zero.
Untouched(u, r) == Apply(units[u].words[r.offset], r) = units[u].words[r.offset]

InCallSlot(u, p) == \E x \in Functions(u) : /\ p - 1 \in x.start .. x.end - 1
                                            /\ units[u].words[p - 1].kind \in {"jal", "jalr"}

\* In an emitted function, every upper half of a data address gets its pointer
\* but those in the slot of a call.  The constant a pointer names is defined once
\* and is the index of its section in the table of another file.  And the two
\* halves add up to the low word of the host's address of the data, all that a
\* register can hold of it, if and only if relocating has added no bit of the
\* symbol's value to either of them.
PointersReach ==
    pc = "done" =>
        \A u \in Units : \A y \in Functions(u) : \A hi \in Uppers(units[u]) :
            Emitted(y) /\ hi.offset \in y.start .. y.end - 1 =>
                LET made == {p \in injected : p.at = <<u, hi.offset>>} IN
                /\ made = {} <=> InCallSlot(u, hi.offset)
                /\ \A p \in made : \E c \in indices :
                      /\ c[1] = p.index /\ \A d \in indices : d[1] = c[1] => d = c
                      /\ c[2] \in DOMAIN blobs /\ blobs[c[2]] = <<u, hi.symbol.section>>
                      /\ \A lo \in Pairs(u, y, hi) :
                            Cast(Formed(u, p, c[2], lo)) = Cast(Wanted(u, hi, lo))
                                <=> Untouched(u, hi) /\ Untouched(u, lo)

\* The linker stops only at a call to an absolute symbol that no function of
\* the units loaded so far has.
StopsOnlyAtUnknown ==
    pc = "crashed" =>
        LET r == Meant(units[unit], i) IN
        /\ r # None /\ r.symbol.absolute
        /\ \A u \in 1 .. unit : Base(u) # 0 => Starting(u, r.symbol.value - Base(u)) = {}

\* "Find the unit with the matching symbol" (cemitter.c:662): a call to a
\* function of another unit by name calls that function.
ImportsReached ==
    \A c \in calls : LET r == Meant(units[c.from[1]], c.from[2]) IN
        r # None => r.symbol.absolute \/ r.symbol.defined \/ c.to \in Meaning(c.from[1], c.from[2])

=============================================================================
