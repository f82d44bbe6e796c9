------------------------------ MODULE MCLinker ------------------------------
(* Instances of Linker: an executable and a module, in either order.  One     *)
(* function of the two holds a call, and every field, relocation and slot of  *)
(* it is tried.  The executable is at 2, so offsets and addresses overlap.    *)
EXTENDS Linker, TLC

Starts == {0, 2, 8}
ElfBase == 2
ElfData == 6

Split(name, start, flag) ==
    [name |-> name, start |-> start, end |-> start + 2, section |-> ".text",
     generate |-> flag # "hand", lib |-> flag = "lib"]
Data(name) == [name |-> name, start |-> 0, end |-> 1, section |-> ".data",
               generate |-> TRUE, lib |-> FALSE]

Elf == [s \in Starts |-> CASE s = 0 -> "main" [] s = 2 -> "open" [] s = 8 -> "read"]
Xff == [s \in Starts |-> CASE s = 0 -> "load" [] s = 2 -> "draw" [] s = 8 -> "stop"]

\* The splits at the given offsets, in order, after a data split.
Splits(names, starts, flag) ==
    <<Data("table")>> \o
    [j \in 1 .. Cardinality(starts) |->
        LET s == CHOOSE x \in starts : Cardinality({y \in starts : y < x}) = j - 1
        IN  Split(names[s], s, IF s = 8 THEN flag ELSE "code")]

Plain == [kind |-> "plain", field |-> 0]
Return == [kind |-> "jump", field |-> 0]
Body(caller, first) ==
    [p \in 0 .. 9 |-> IF p = caller THEN first
                      ELSE IF p \in Starts THEN Return ELSE Plain]

Symbol(abs, def, name, value) ==
    [absolute |-> abs, defined |-> def, name |-> name, value |-> value,
     section |-> IF def /\ ~abs THEN ".text" ELSE ""]
Reloc(offset, type, symbol) ==
    [section |-> ".text", offset |-> offset, type |-> type, symbol |-> symbol]

Header(name, type, address) == [name |-> name, type |-> type, address |-> address]
ElfHeaders == <<Header("", "null", 0), Header(".text", "progbits", ElfBase),
                Header(".data", "progbits", ElfData)>>
\* An XFF's headers say neither type nor address; one section has an unknown name.
XffHeaders == [k \in 1 .. 5 |-> Header(<<"", ".text", "_data", ".data", ".rodata">>[k], "", 0)]
MCIdent == [n \in {"", ".text", "_data", ".data", ".rodata"} |->
               CASE n = ".text" -> "_text" [] n = ".data" -> "_data" [] n = ".rodata" -> "_rodata"
                 [] OTHER -> n]

\* A pointer in .data, where an instruction outside functions is in .text.
InData == [Reloc(7, "32", Symbol(FALSE, TRUE, "table", 0)) EXCEPT !.section = ".data"]

Symbols ==
    {Symbol(TRUE, TRUE, "far", v) : v \in {2, 4, 7, 10}} \cup
    {Symbol(FALSE, TRUE, Xff[s], s) : s \in Starts} \cup
    {Symbol(FALSE, TRUE, None, 0)} \cup
    {Symbol(FALSE, FALSE, n, 0) : n \in {"open", "read"}}

ElfUnit(starts, flag, words) ==
    [format |-> "elf", sections |-> ElfHeaders, relocs |-> <<>>,
     splits |-> Splits(Elf, starts, flag), words |-> words]
XffUnit(starts, words, relocs) ==
    [format |-> "xff", sections |-> XffHeaders, relocs |-> <<InData>> \o relocs,
     splits |-> Splits(Xff, starts, "code"), words |-> words]
Quiet == Body(-1, Plain)

Jal(field) == [kind |-> "jal", field |-> field]

ElfCalls ==
    {<<ElfUnit(c[1], flag, Body(c[2], Jal(field))), XffUnit(starts, Quiet, <<>>)>> :
        c \in {d \in (SUBSET Starts) \X {0, 8} : d[2] \in d[1]},
        flag \in {"code", "lib", "hand"}, field \in {0, 2, 4, 7, 8, 10},
        starts \in SUBSET Starts}
XffCalls ==
    {<<ElfUnit(elves, flag, Quiet),
       XffUnit(c[1], Body(c[2], Jal(field)), <<Reloc(c[2], "26", symbol)>>)>> :
        c \in {d \in (SUBSET Starts) \X {0, 8} : d[2] \in d[1]},
        elves \in SUBSET Starts, flag \in {"code", "lib"},
        field \in {0, 2, 8}, symbol \in Symbols}
\* A pointer to data is made at 2 or in the slot of a transfer there, and its
\* lower half is added at 4, the end of that function.
Upper(kind) == IF kind = "plain" THEN 2 ELSE 3
Pointing(kind, hi, lo) ==
    [Body(2, [kind |-> kind, field |-> 0]) EXCEPT ![Upper(kind)].field = hi, ![4].field = lo]
Longer(x) == [x EXCEPT !.splits =
                 [j \in DOMAIN @ |-> IF @[j].start = 2 THEN [@[j] EXCEPT !.end = 5] ELSE @[j]]]
Pointers ==
    {<<ElfUnit(Starts, "code", Quiet),
       Longer(XffUnit(Starts, Pointing(kind, hi, lo),
               <<Reloc(Upper(kind), "high16", symbol), Reloc(4, "low16", symbol)>>))>> :
        kind \in {"plain", "jump", "jal", "jalr"},
        hi \in 0 .. Half - 1, lo \in 0 .. Half - 1,
        symbol \in {[Symbol(FALSE, TRUE, IF v = 0 THEN None ELSE "table", v) EXCEPT !.section = s] :
                       v \in {0, 1, Half + 1}, s \in {".data", ".rodata"}}}

\* Data lie above what a register can hold, .rodata at the end of a word.
MCHost(u, name) == 16 * 5 + CASE name = ".data" -> 2 * u [] name = ".rodata" -> 15 [] OTHER -> 0

\* A unit of another format.
Foreign == {<<ElfUnit(Starts, "code", Body(0, Jal(4))),
              [XffUnit(Starts, Quiet, <<>>) EXCEPT !.format = "bin", !.relocs = <<>>]>>}

Both(projects) == projects \cup {<<p[2], p[1]>> : p \in projects}
MCProjects == {p \in Both(ElfCalls \cup XffCalls \cup Pointers \cup Foreign) : WellFormed(p)}

\* Two modules: one calls by name a function that the other has.
MCImports ==
    {<<XffUnit(starts, Body(0, Jal(0)), <<Reloc(0, "26", Symbol(FALSE, FALSE, "read", 0))>>),
       [XffUnit(Starts, Quiet, <<>>) EXCEPT !.splits = Splits(Elf, Starts, "code")]>> :
        starts \in {{0}, {0, 2}, Starts}}
=============================================================================
