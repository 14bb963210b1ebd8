----------------------------- MODULE CodeGenerator ----------------------------
(***************************************************************************)
(* CodeGenerator::generate: for one function after the other, registers    *)
(* for its short-lived variables, for the others, for globals and for hot  *)
(* constants; a first pass that finds out which registers must be saved;   *)
(* then its text.                                                          *)
(***************************************************************************)
EXTENDS Selection

CONSTANT Programs  \* optimised code

ASSUME RegistersApart ==
  /\ ArgRegs \in Seq(STRING) \ {<< >>} /\ SavedRegs \in Seq(STRING) /\ TempRegs \in Seq(STRING) \ {<< >>}
  /\ \A j, k \in DOMAIN ArgRegs : ArgRegs[j] = ArgRegs[k] => j = k
  /\ \A j, k \in DOMAIN TempRegs : TempRegs[j] = TempRegs[k] => j = k
  /\ ToSet(TempRegs) \cap (ToSet(ArgRegs) \union ToSet(SavedRegs)) = {}
  /\ (Scratch \union {"x0", "sp", "s0", "ra", NoReg}) \cap ToSet(TempRegs \o ArgRegs \o SavedRegs) = {}

\* t3 is the first register for temporaries; a word has 6 bits or more, and
\* no more than the code's 32; an immediate is a word; and where a register is
\* saved is an immediate away from s0, as it is with 2048 and ten of them.
ASSUME RegistersReach ==
  /\ TempRegs[1] = "t3"
  /\ WordBits \in 6..32 /\ 2^(WordBits - 1) = Half
  /\ ImmHalf \in 0..Half /\ WordBytes * (2 + Len(SavedRegs)) <= ImmHalf

\* A function ends, and labels read nothing.
ASSUME ProgramsAreCode ==
  \A p \in Programs :
    /\ Len(p) \in Nat
    /\ \A f \in FunctionsOf(p) : \E j \in BeginOf(p, f)..Len(p) : p[j].op = "FUNC_END"
    /\ \A i \in 1..Len(p) : p[i].op = "LABEL" => IsNone(p[i].src1) /\ IsNone(p[i].src2)

VARIABLES
  ir,        \* ir_
  functions, \* the functions that have no text yet
  stage,     \* of the first of them: temps, locals, globals, text
  queue,     \* what this stage has left to place
  live,      \* liveIn, as far as it is known
  conflicts, \* interference
  frame,     \* frame_
  asm        \* the text

vars == <<ir, functions, stage, queue, live, conflicts, frame, asm>>

\* collectFunctions: in the order of the code.
FirstOf(code, fs) == CHOOSE f \in fs : \A h \in fs : BeginOf(code, f) <= BeginOf(code, h)
current == FirstOf(ir, functions)
leaf == ~ HasCall(ir, current)

NewFrame ==
  [temps |-> << >>, locals |-> << >>, globals |-> << >>, constants |-> << >>,
   spilled |-> << >>, saved |-> << >>]

\* Mutant of Begun: the candidates of the first function are kept.
BegunOnce(code, fs) == IF fs = {} THEN {} ELSE Candidates(code, FirstOf(code, FunctionsOf(code)))
Begun(code, fs) == IF fs = {} THEN {} ELSE Candidates(code, FirstOf(code, fs))
Unseen(code, fs) == IF fs = {} THEN << >> ELSE NothingLive(code, FirstOf(code, fs))

Init ==
  /\ ir \in Programs
  /\ functions = FunctionsOf(ir)
  /\ stage = "temps" /\ queue = Begun(ir, functions)
  /\ live = Unseen(ir, functions) /\ conflicts = {}
  /\ frame = NewFrame
  /\ asm = << >>

At1(s) == functions # {} /\ stage = s
Placing(s, n) == At1(s) /\ n \in queue
Placed(s) == At1(s) /\ queue = {}

\* The registers given so far, and others.
Joined(given, more) ==
  [n \in DOMAIN given \union DOMAIN more |-> IF n \in DOMAIN given THEN given[n] ELSE more[n]]
InReg(n, r) == [m \in {n} |-> r]
Taken(r, n) == [frame EXCEPT !.locals = Joined(@, InReg(n, r))]
Least(n, Key(_)) == n = Head(Ordered(queue, Key))

-------------------------------------------------------------------------------
\* The first of the registers that is fit: a set of at most one.
FirstFit(regs, Fits(_)) ==
  {regs[k] : k \in {j \in DOMAIN regs : Fits(regs[j]) /\ \A i \in 1..(j - 1) : ~ Fits(regs[i])}}

\* A temporary takes the first register whose ranges do not overlap its own,
\* if there is one (regForVar makes no difference between it and a local).
FreeTemp(n) ==
  FirstFit(TempRegisters(ir, current),
    LAMBDA r : \A m \in DOMAIN frame.temps :
                 frame.temps[m] = r => ~ RangesOverlap(LiveRanges(ir, current, m), LiveRanges(ir, current, n)))

PlaceTemp ==
  \E n \in queue :
    /\ Placing("temps", n) /\ Least(n, LAMBDA m : CandidateKey(ir, current, m))
    /\ frame' \in IF FreeTemp(n) = {} THEN {frame}
                  ELSE {[Taken(r, n) EXCEPT !.temps = Joined(@, InReg(n, r))] : r \in FreeTemp(n)}
    /\ queue' = queue \ {n}
    /\ UNCHANGED <<ir, functions, stage, live, conflicts, asm>>

\* A round of the fixpoint, if it finds something new.
FindLive ==
  /\ Placed("temps")
  /\ LiveRound(ir, current, live) # live
  /\ live' = LiveRound(ir, current, live)
  /\ UNCHANGED <<ir, functions, stage, queue, conflicts, frame, asm>>

\* In a leaf, a formal that is no temporary stays where it comes.
FormalsInPlace ==
  LET formals == [k \in DOMAIN Formals(ir, current) |-> Formals(ir, current)[k].dest.name]
      stay == {k \in DOMAIN formals \cap DOMAIN ArgRegs : formals[k] \notin DOMAIN frame.temps}
  IN IF leaf THEN [n \in {formals[k] : k \in stay} |-> ArgRegs[CHOOSE k \in stay : formals[k] = n]]
     ELSE << >>

BuildGraph ==
  /\ Placed("temps")
  /\ LiveRound(ir, current, live) = live
  /\ stage' = "locals"
  /\ conflicts' = Interference(ir, current, live, DOMAIN frame.temps)
  /\ frame' = [frame EXCEPT !.locals = Joined(@, FormalsInPlace)]
  /\ queue' = LocalsIn(ir, current) \ DOMAIN frame'.locals
  /\ UNCHANGED <<ir, functions, live, asm>>

Allocatable == IF leaf THEN ArgRegs \o SavedRegs ELSE SavedRegs
Coloured == DOMAIN frame.locals \ DOMAIN frame.temps
Free(n, r) == \A m \in Coloured : <<n, m>> \in conflicts => frame.locals[m] # r

\* A variable takes the register of one that it is copied from or to, in the
\* order of a hash table, else the first that is free, else a slot.
Preferred(n) ==
  {r \in {frame.locals[m] : m \in CopyPartners(ir, current, n, DOMAIN frame.temps) \cap Coloured} : Free(n, r)}
Colours(n) == IF Preferred(n) # {} THEN Preferred(n) ELSE FirstFit(Allocatable, LAMBDA r : Free(n, r))

Colour ==
  \E n \in queue :
    /\ Placing("locals", n) /\ Least(n, LAMBDA m : VarKey(ir, current, m))
    /\ frame' \in IF Colours(n) = {} THEN {frame} ELSE {Taken(r, n) : r \in Colours(n)}
    /\ queue' = queue \ {n}
    /\ UNCHANGED <<ir, functions, stage, live, conflicts, asm>>

\* A leaf keeps the globals that cost most in the registers that are left, but
\* not in a0; equal costs come in the order of a hash table.
GlobalsIn == {o.name : o \in {x \in UNION {ToSet(Operands(ir[i])) : i \in Code(ir, current)} : IsGlobal(x)}}

OrderGlobals ==
  /\ Placed("locals")
  /\ stage' = "globals"
  /\ queue' = IF leaf THEN GlobalsIn ELSE {}
  /\ UNCHANGED <<ir, functions, live, conflicts, frame, asm>>

Unused(r) ==
  /\ \A n \in Coloured : frame.locals[n] # r
  /\ \A g \in DOMAIN frame.globals : frame.globals[g] # r
FreeForGlobal == FirstFit(Tail(ArgRegs) \o SavedRegs, LAMBDA r : Unused(r))

PlaceGlobal ==
  \E g \in queue :
    /\ Placing("globals", g)
    /\ \A h \in queue : GlobalWeight(ir, current, g) >= GlobalWeight(ir, current, h)
    /\ frame' \in IF FreeForGlobal = {} THEN {frame}
                  ELSE {[frame EXCEPT !.globals = Joined(@, InReg(g, r))] : r \in FreeForGlobal}
    /\ queue' = queue \ {g}
    /\ UNCHANGED <<ir, functions, stage, live, conflicts, asm>>

-------------------------------------------------------------------------------
\* Constants take what is left even then: in a leaf t3, unless a MOD needs it,
\* and the argument registers in which nothing comes.
HoistLimit == 6

NeedsRemainderScratch ==
  \E i \in Code(ir, current) : ir[i].op = "MOD" /\ RegOf(frame, ir[i].src1) = NoReg

t3 == TempRegs[1]
Spare(r) ==
  \/ leaf /\ r = t3 /\ ~ NeedsRemainderScratch /\ \A n \in DOMAIN frame.temps : frame.temps[n] # r
  \/ leaf /\ Unused(r) /\ \E k \in DOMAIN ArgRegs : ArgRegs[k] = r /\ k > Len(Formals(ir, current))
  \/ Unused(r) /\ r \in ToSet(SavedRegs)

\* The k-th constant gets the k-th spare register.
Hoisted(hot) ==
  LET order == << t3 >> \o ArgRegs \o SavedRegs
      spare == {j \in DOMAIN order : Spare(order[j])}
      Rank(j) == Cardinality({i \in spare : i <= j})
      given == {<<hot[Rank(j)], order[j]>> : j \in {i \in spare : Rank(i) <= HoistLimit /\ Rank(i) <= Len(hot)}}
  IN [v \in {p[1] : p \in given} |-> (CHOOSE p \in given : p[1] = v)[2]]

\* detectTailCalls.
IsTailCall(i) ==
  /\ ir[i].op = "CALL" /\ i + 1 \in Code(ir, current) /\ ir[i + 1].op = "RETURN"
  /\ ~ IsGlobal(ir[i].dest) /\ ir[i + 1].dest = ir[i].dest
  /\ \A j \in Code(ir, current) : j >= i + 2 => ir[j].op = "RETURN"
  /\ \A j \in Code(ir, current) :
       (j < i /\ \A k \in j..(i - 1) : ir[k].op = "PARAM") => ir[j].src1.imm < Len(ArgRegs)

\* Mutant of AdjustStackPointer: no regard to the size of the frame.
AdjustAtOnce(amount) == << I("addi", "sp", "sp", amount) >>
AdjustStackPointer(amount) ==
  IF fitsSigned12(amount) THEN << I("addi", "sp", "sp", amount) >>
  ELSE << Li("t2", amount), R("add", "sp", "sp", "t2") >>

\* frameSizeBytes: ra, s0, the saved registers, the slots, the outgoing
\* arguments, up to a multiple of 16.
NeedsFrame(fr) ==
  HasCall(ir, current) \/ HasStackParameters(ir, current) \/ fr.spilled # << >> \/ OutgoingWords(ir, current) # 0 \/ fr.saved # << >>
FrameSize(fr) ==
  LET words == ReservedWords(fr) + Len(fr.spilled) + OutgoingWords(ir, current)
  IN 16 * ((WordBytes * words + 15) \div 16)
\* Mutant of SavedAt: the first register is saved where s0 is.
SavedAtS0(k) == -(WordBytes * (1 + k))
SavedAt(k) == -(WordBytes * (2 + k))

Saves(fr)    == [k \in DOMAIN fr.saved |-> Sw(fr.saved[k], "s0", SavedAt(k))]
Restores(fr) == [k \in DOMAIN fr.saved |-> Lw(fr.saved[k], "s0", SavedAt(k))]

Prologue(fr) ==
  LET size == FrameSize(fr) IN
  IF ~ NeedsFrame(fr) THEN << >>
  ELSE AdjustStackPointer(-size)
         \o (IF leaf THEN << >> ELSE StoreToAddress("ra", "sp", size - 4))
         \o StoreToAddress("s0", "sp", size - 8)
         \o (IF fitsSigned12(size) THEN << I("addi", "s0", "sp", size) >>
             ELSE << Li("t2", size), R("add", "s0", "sp", "t2") >>)
         \o Saves(fr)

\* What a return and a tail call begin with.
Leave(fr, withRa) ==
  Restores(fr) \o (IF withRa THEN << Lw("ra", "s0", -4) >> ELSE << >>)
    \o << Lw("s0", "s0", -8) >> \o AdjustStackPointer(FrameSize(fr))

Epilogue(fr) == (IF NeedsFrame(fr) THEN Leave(fr, ~ leaf) ELSE << >>) \o << Ret >>

TailCall(fr, g) == IF g = current THEN << J(Body(current)) >> ELSE Leave(fr, TRUE) \o << J(<<"function", g>>) >>

\* The RETURNs behind a tail call are left out.
Lines(fr) ==
  LET From[i \in Nat] ==
        IF i \notin Code(ir, current) THEN << >>
        ELSE IF IsTailCall(i) THEN TailCall(fr, ir[i].src1.name)
        ELSE LET s == Selected(ir, current, fr, i) IN s.lines \o From[i + s.length]
  IN From[BeginOf(ir, current) + 1]

\* Mutant of scanUsedSRegisters: only what the lines write.
scanWrittenSRegisters(lines) == InOrder(SavedRegs, {line.rd : line \in ToSet(lines)})

\* The registers that the first pass finds in the lines.
scanUsedSRegisters(lines) ==
  InOrder(SavedRegs, UNION {{line.rd, line.rs, line.rt} : line \in ToSet(lines)})

Settle ==
  /\ Placed("globals")
  /\ stage' = "text"
  /\ \E fr \in {[frame EXCEPT !.constants = Hoisted(HotIn(ir, current)),
                             !.spilled = SelectSeq(VarOrder(ir, current), LAMBDA n : n \notin DOMAIN frame.locals)]} :
       frame' = [fr EXCEPT !.saved = scanUsedSRegisters(applyPeephole(Lines(fr)))]
  /\ UNCHANGED <<ir, functions, queue, live, conflicts, asm>>

\* Globals in registers are loaded at entry and stored at exit.
LoadGlobal(g) == << La("t2", g), Lw(frame.globals[g], "t2", 0) >>
StoreGlobal(g) == << La("t2", g), Sw(frame.globals[g], "t2", 0) >>
ForGlobals(lines(_)) == FlattenSeq([k \in DOMAIN SetToSeq(DOMAIN frame.globals) |-> lines(SetToSeq(DOMAIN frame.globals)[k])])
ForConstants ==
  LET order == InOrder(ArgRegs \o SavedRegs \o TempRegs, Range(frame.constants))
      Constant(r) == CHOOSE c \in DOMAIN frame.constants : frame.constants[c] = r
  IN [k \in DOMAIN order |-> Li(order[k], Constant(order[k]))]

Text ==
  << At(<<"function", current>>) >> \o Prologue(frame) \o ForConstants \o ForGlobals(LoadGlobal)
    \o << At(Body(current)) >> \o Lines(frame)
    \o << At(Exit(current)) >> \o ForGlobals(StoreGlobal) \o Epilogue(frame)

Emit ==
  /\ At1("text")
  /\ asm' = asm \o applyPeephole(Text)
  /\ functions' = functions \ {current}
  /\ stage' = "temps" /\ queue' = Begun(ir, functions')
  /\ live' = Unseen(ir, functions') /\ conflicts' = {}
  /\ frame' = NewFrame
  /\ UNCHANGED ir

Next ==
  PlaceTemp \/ FindLive \/ BuildGraph \/ Colour \/ OrderGlobals \/ PlaceGlobal \/ Settle \/ Emit

Spec == Init /\ [][Next]_vars

-------------------------------------------------------------------------------
Done == functions = {}

\* The frame and the queue are those of the function at hand: nothing is left
\* over from the one before (frame_ is replaced as a whole in generateFunction).
TypeOK ==
  /\ ir \in Programs
  /\ functions \subseteq FunctionsOf(ir)
  /\ stage \in {"temps", "locals", "globals", "text"}
  /\ functions # {} =>
       /\ queue \subseteq (IF stage = "globals" THEN GlobalsIn ELSE LocalsIn(ir, current))
       /\ live \in [Code(ir, current) -> SUBSET LocalsIn(ir, current)]
       /\ conflicts \subseteq LocalsIn(ir, current) \X LocalsIn(ir, current)
  /\ \A n \in DOMAIN frame.temps : n \in DOMAIN frame.locals /\ frame.temps[n] = frame.locals[n]
  /\ \A n \in DOMAIN frame.locals : frame.locals[n] \in Registers

\* Nothing is written into a register while it holds something that is needed
\* afterwards: not another variable, unless it is a copy of it, nor a global,
\* nor a constant.  What is needed is a solution of the equations of liveness.
LiveValuesApart ==
  At1("text") =>
    /\ LiveRound(ir, current, live) = live
    /\ \A i \in Code(ir, current) :
         (WritesLocal(ir[i]) /\ ir[i].dest.name \in DOMAIN frame.locals) =>
           LET r == frame.locals[ir[i].dest.name] IN
           /\ \A m \in LiveOut(ir, current, live, i) \ {ir[i].dest.name} :
                (m \in DOMAIN frame.locals /\ frame.locals[m] = r) => IsCopy(ir[i]) /\ Names(ir[i].src1, m)
           /\ r \notin Range(frame.globals) \union Range(frame.constants)

\* The registers that the text of a function changes for its caller are among
\* those that its prologue saves (code_generator.cpp, "只保存实际使用的 s 寄存器").
SavedBeforeUse ==
  At1("text") =>
    {line.rd : line \in ToSet(applyPeephole(Text))} \cap ToSet(SavedRegs) \subseteq ToSet(frame.saved)

\* Every line names registers and every immediate fits its instruction, also
\* when the frame is larger than an immediate can say.
AllEncodable == \A line \in ToSet(asm) : Encodable(line)

\* Code that holds only words, and none of what the optimiser removes (DIV and
\* MOD by 1) or the generator gets wrong: the constant of LE has a successor
\* that is an immediate, and that of SUB an opposite.
Translatable(inst) ==
  /\ \A o \in {inst.src1, inst.src2, inst.dest} : IsImm(o) => o.imm \in Word
  /\ IsImm(inst.src2) =>
       /\ inst.op = "LE" => inst.src2.imm # ImmHalf - 1
       /\ inst.op = "SUB" => inst.src2.imm # -ImmHalf
       /\ inst.op \in {"DIV", "MOD"} => inst.src2.imm # 1
  /\ inst.op = "PARAM" => inst.src1.imm \in Nat
AllTranslatable(code) == \A i \in 1..Len(code) : Translatable(code[i])
===============================================================================
