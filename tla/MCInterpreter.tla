---------------------------- MODULE MCInterpreter ----------------------------
(* Every program of up to four instructions of a small set, and some that  *)
(* are as long as the program counter allows, or one longer.               *)
EXTENDS Interpreter, ShadowState, Loader

I(op, src, k) == [op |-> op, src |-> src, k |-> k]
SET == I("SET", 0, 0)
MEM == I("MEM", 0, 0)
MOV10 == I("MOV10", 0, 0)
LDDW == I("LDDW", 0, 0)
ZERO == I("ZERO", 0, 0)
EXIT == I("EXIT", 0, 0)
JMP(k) == I("JMP", 0, k)
CALL(k) == I("CALL", 1, k)
HELPER == I("CALL", 0, 1)

InstSet == {SET, LDDW, ZERO, EXIT, JMP(1), JMP(-2), CALL(0), CALL(1), CALL(-2)}
Short == UNION {[1 .. n -> InstSet] : n \in 1 .. 3} \cup
         {<<CALL(1)>> \o p : p \in [1 .. 3 -> InstSet]}
Long == { <<SET, SET, SET, SET, SET, SET, SET>>,
          <<SET, SET, SET, SET, SET, SET, SET, SET>>,
          <<HELPER, MEM, CALL(2), SET, JMP(-2), CALL(-3), EXIT>>,
          <<CALL(1), EXIT, SET, CALL(1), EXIT, SET, EXIT>>,
          <<CALL(5), EXIT, SET, SET, SET, SET, EXIT>>,
          <<CALL(1), EXIT, MOV10, EXIT>>, <<MOV10, CALL(1), EXIT, SET, EXIT>>,
          <<CALL(2), CALL(1), EXIT, CALL(1), EXIT, MOV10, EXIT>>,
          <<I("CALL", 2, 0), EXIT>>, <<I("CALL", 0, 2), EXIT>> }
MCPrograms == Short \cup Long
MCUse == [p \in MCPrograms |-> [i \in PCs |-> IF i = 6 THEN 24 ELSE 16 * (i + 1)]]
OneCall == { <<CALL(1), EXIT, SET, EXIT>> }
OneUse == [p \in OneCall |-> [i \in PCs |-> 16]]

-----------------------------------------------------------------------------
(* The undefined-behaviour check: every program of up to three             *)
(* instructions of a small set, and some longer ones with functions.       *)
J(cls, op, reg, dst, src, off, imm, size) ==
  [cls |-> cls, op |-> op, reg |-> reg, dst |-> dst, src |-> src, off |-> off, imm |-> imm, size |-> size]
MOV(d) == J("ALU", "MOV", FALSE, d, 0, 0, 0, 0)
MOVX(d, s) == J("ALU", "MOV", TRUE, d, s, 0, 0, 0)
ADD(d, s) == J("ALU", "ADD", TRUE, d, s, 0, 0, 0)
BE(d) == J("ALU", "BE", TRUE, d, 0, 0, 0, 0)
LDX(d, s, off, n) == J("LDX", "LDX", TRUE, d, s, off, 0, n)
STX(s, off, n) == J("STX", "STX", FALSE, 10, s, off, 0, n)
ST(d, off, n) == J("ST", "ST", FALSE, d, 0, off, 0, n)
WIDE == J("LD", "LDDW", FALSE, 7, 0, 0, 0, 0)
PAD == J("LD", "ZERO", FALSE, 0, 0, 0, 0, 0)
JA(k) == J("JMP", "JA", FALSE, 0, 0, k, 0, 0)
JEQ(d, s, k) == J("JMP", "JEQ", TRUE, d, s, k, 0, 0)
LOCAL_(k) == J("JMP", "CALL", FALSE, 0, 1, 0, k, 0)
EXTERNAL == J("JMP", "CALL", FALSE, 0, 0, 0, 1, 0)
RETURN == J("JMP", "EXIT", FALSE, 0, 0, 0, 0, 0)

Body == {MOV(0), MOV(6), MOVX(0, 6), ADD(6, 1), BE(1), LDX(0, 10, -2, 2), LDX(0, 10, -3, 2), LDX(1, 2, 0, 1),
         STX(6, -1, 1), STX(1, -4, 4), ST(10, -3, 2), ST(1, 0, 1), EXTERNAL, JEQ(6, 1, 1), JEQ(6, 1, -3)}
Straight == {b \o <<RETURN>> : b \in [1 .. 3 -> Body]}
Functions == {<<a, LOCAL_(2), b, RETURN, c, d, RETURN>> :
               a \in {MOV(6), MOV(0), STX(1, -4, 4)}, b, c, d \in Body}
Odd == { <<MOV(0), LOCAL_(1), MOV(0), MOV(6), LOCAL_(-2), RETURN>>,
         <<MOV(0), LOCAL_(0), LOCAL_(-1), RETURN>>,
         <<LOCAL_(1), RETURN, MOV(0), LOCAL_(1), RETURN, MOV(6), LOCAL_(-2), RETURN>>,
         <<WIDE, PAD, MOV(0), LOCAL_(-3), RETURN>>,
         <<WIDE, PAD, MOV(0), LOCAL_(1), JA(-2), JEQ(0, 7, 1), RETURN, MOV(6)>>,
         <<MOV(0), LOCAL_(2), JA(1), RETURN, JEQ(0, 0, 1), RETURN, LOCAL_(-3), RETURN>> }
(* The jumps of the bodies do not all lead somewhere.                      *)
MCCodes == {p \in Straight \cup Functions \cup Odd : Validated(p)}
MCUsageOf(at0) == IF at0 = 0 THEN 1 ELSE IF at0 = 4 THEN 2 ELSE 3

-----------------------------------------------------------------------------
(* Object files: main and a function f in .text or in sections of their    *)
(* own, in either order in the section and in the symbol table, with calls *)
(* and loads that are relocated through all kinds of symbols.              *)
K(op, src, imm) == [op |-> op, src |-> src, imm |-> imm, ref |-> NoName]
PLAIN == K("MOV", 0, 0)
END == K("EXIT", 0, 0)
MainCode(call) == <<PLAIN, call, K("LDDW", 0, 4), K("ZERO", 0, 0), END>>
FCode(call) == <<PLAIN, call, END>>

Header(name, type, flags, data, info, link) ==
  [name |-> name, type |-> type, flags |-> flags, data |-> data, info |-> info, link |-> link]
Symbol(type, name, shndx, value, size) ==
  [type |-> type, name |-> name, shndx |-> shndx, value |-> value, size |-> size]
Rel(offset, sym, type) == [offset |-> offset, sym |-> sym, type |-> type]

(* Sections 1 and 2 hold code, 3 data, 4 the symbols; 5 and 6 relocate     *)
(* sections 1 and 2, 7 relocates the data.                                 *)
File(text, other, syms, relText, relOther, link) ==
  [header |-> TRUE,
   sections |-> << Header("", "NULL", "", << >>, 0, 0),
                   Header(".text", "PROGBITS", "AX", text, 0, 0),
                   Header("xdp", "PROGBITS", "AX", other, 0, 0),
                   Header(".maps", "PROGBITS", "WA", <<0, 0, 0>>, 0, 0),
                   Header(".symtab", "SYMTAB", "", syms, 0, 0),
                   Header(".rel.text", "REL", "", relText, 1, link),
                   Header(".relxdp", "REL", "", relOther, 2, 4),
                   Header(".rel.maps", "REL", "", <<Rel(0, 0, "R_BPF_64_64")>>, 3, 4),
                   Header(".strtab", "STRTAB", "", << >>, 0, 0) >>]

Fixed == << Symbol("NOTYPE", "", 0, 0, 0), Symbol("SECTION", "", 1, 0, 0), Symbol("SECTION", "", 2, 0, 0),
            Symbol("OBJECT", "map", 3, 0, 2), Symbol("NOTYPE", "print", 0, 0, 0),
            Symbol("NOTYPE", "unknown", 0, 0, 0), Symbol("OBJECT", BadName, 3, 0, 2),
            Symbol("OBJECT", "long", 3, 2, 2), Symbol("OBJECT", "none", 0, 0, 0) >>

(* Where main and f are: <<section, offset>>.                              *)
Layouts == {<< <<1, 0>>, <<1, 5>> >>, << <<1, 3>>, <<1, 0>> >>, << <<2, 0>>, <<1, 0>> >>, << <<1, 0>>, <<2, 0>> >>}
(* A call and the symbol it is relocated with; 9 and 10 are the functions, *)
(* there is no symbol 11.                                                  *)
LocalCalls == {[src |-> 1, imm |-> k, sym |-> s] : k \in {-1, 2, 4}, s \in {1, 2}}
OtherCalls == {[src |-> 0, imm |-> -1, sym |-> s] : s \in {4, 5, 6}} \cup
              {[src |-> 1, imm |-> -1, sym |-> s] : s \in {9, 10, 11}}
Loads == {Rel(2, s, "R_BPF_64_64") : s \in {3, 6, 7, 8}} \cup {Rel(2, 3, "R_BPF_NONE")}

CodeIn(s, l, call, fcall) ==
  LET m == IF l[1][1] = s THEN MainCode(call) ELSE << >>
      f == IF l[2][1] = s THEN FCode(fcall) ELSE << >>
  IN  IF l[1][2] <= l[2][2] THEN m \o f ELSE f \o m
Shifted(r, k) == [r EXCEPT !.offset = @ + k]

Linkable(l, order, call, fcall, load) ==
  LET funcs == << Symbol("FUNC", "main", l[1][1], l[1][2], 5), Symbol("FUNC", "f", l[2][1], l[2][2], 3) >>
      rels(s) == (IF l[1][1] = s THEN << Rel(l[1][2] + 1, call.sym, "R_BPF_64_32"), Shifted(load, l[1][2]) >>
                                 ELSE << >>) \o
                 (IF l[2][1] = s /\ fcall.sym # 0 THEN << Rel(l[2][2] + 1, fcall.sym, "R_BPF_64_32") >> ELSE << >>)
      text(s) == CodeIn(s, l, K("CALL", call.src, call.imm), K("CALL", fcall.src, fcall.imm))
  IN  File(text(1), text(2), Fixed \o (IF order THEN funcs ELSE Reverse(funcs)), rels(1), rels(2), 4)

(* Calls of f that are not relocated: of itself, and of what follows it.   *)
Direct == {[src |-> 1, imm |-> k, sym |-> 0] : k \in {-2, 1}}
Linkables ==
  {Linkable(l, o, c, f, Rel(2, 3, "R_BPF_64_64")) :
     l \in Layouts, o \in BOOLEAN, c \in LocalCalls \cup OtherCalls,
     f \in {[src |-> 1, imm |-> 4, sym |-> 1], [src |-> 1, imm |-> -1, sym |-> 2],
            [src |-> 0, imm |-> 0, sym |-> 4]} \cup Direct} \cup
  {Linkable(l, TRUE, [src |-> 0, imm |-> -1, sym |-> 4], f, load) : l \in Layouts, f \in Direct, load \in Loads}

(* Files that are not as they should be, and files with aliases.           *)
Simple(syms, link, offset) ==
  File(FCode(PLAIN), FCode(K("CALL", 0, 0)), Fixed \o syms, << >>, <<Rel(offset, 4, "R_BPF_64_32")>>, link)
MAIN(name, s) == Symbol("FUNC", name, s, 0, 3)
Defective ==
  {Simple(<<MAIN("main", s), MAIN(n, t)>>, link, o) :
     s, t \in {1, 2, 3, 20}, n \in {"f", "main", BadName}, link \in {4, 9}, o \in {0, 1}} \cup
  {[header |-> FALSE, sections |-> << >>], [header |-> TRUE, sections |-> << >>],
   [header |-> TRUE, sections |-> [k \in 1 .. 11 |-> Header("", "NULL", "", << >>, 0, 0)]]}
MCMainNames == {"main", NoName}
MCRegistered == (0 :> "load") @@ (2 :> "print") @@ (3 :> "print")
MCObjects == Linkables \cup Defective

-----------------------------------------------------------------------------
(* The three models side by side: only one of them takes steps.            *)
MCInit == Init /\ ShadowInit /\ LoaderInit
MCNext == (phase = "start" /\ stage = "idle" /\ Next /\ UNCHANGED <<shadowVars, loaderVars>>) \/
          (loads = 0 /\ stage = "idle" /\ ShadowNext /\ UNCHANGED <<vars, loaderVars>>) \/
          (loads = 0 /\ phase = "start" /\ LoaderNext /\ UNCHANGED <<vars, shadowVars>>)
MCSpec == MCInit /\ [][MCNext]_<<vars, shadowVars, loaderVars>> /\ WF_vars(Loop)
=============================================================================
