----------------------------- MODULE TempRecycling ----------------------------
(***************************************************************************)
(* Pass 5: the temporaries of an expression take over the names of those   *)
(* that have been read.  One walk through the code keeps a book of the     *)
(* names in use.                                                           *)
(***************************************************************************)
EXTENDS IR, SequencesExt

\* useCount = 1: the temporaries that a single operand reads.
ReadersOf(ir, n) ==
  {r \in (1..Len(ir)) \X {"dest", "src1", "src2"} :
     Names(ir[r[1]][r[2]], n) /\ (r[2] = "dest" => ReadsDest(ir[r[1]]))}

ReadOnce(ir) == {n \in LocalsOf(ir) : Cardinality(ReadersOf(ir, n)) = 1}

-------------------------------------------------------------------------------
\* The book: the new name of each temporary (renameMap), how many have a name
\* (activeCount), the names to use again (freePool, a stack) and those that
\* were given in this block (blockDefined).
NewBook(names) ==
  [renamed |-> << >>, active |-> [n \in names |-> 0], pool |-> << >>, block |-> {}]

\* resolveOperand.
Resolved(book, o) ==
  IF IsLocal(o) /\ o.name \in DOMAIN book.renamed THEN Local(book.renamed[o.name]) ELSE o

\* What an earlier block gave back may be read again after a jump backwards.
BlockEntered(book, inst) ==
  IF inst.op = "LABEL" THEN [book EXCEPT !.pool = << >>, !.block = {}] ELSE book

\* Mutant: a name is free as soon as its temporary has been read.
ReleasedAnywhere(book, once, o) ==
  IF IsLocal(o) /\ o.name \in once \intersect DOMAIN book.renamed
  THEN LET n == book.renamed[o.name] IN
       [renamed |-> [t \in DOMAIN book.renamed \ {o.name} |-> book.renamed[t]],
        active |-> [book.active EXCEPT ![n] = @ - 1],
        pool |-> Append(book.pool, n),
        block |-> book.block]
  ELSE book

\* releaseIfSingleUse.
Released(book, once, o) ==
  IF IsLocal(o) /\ o.name \in once \intersect DOMAIN book.renamed
  THEN LET n == book.renamed[o.name] IN
       [renamed |-> [t \in DOMAIN book.renamed \ {o.name} |-> book.renamed[t]],
        active |-> [book.active EXCEPT ![n] = @ - 1],
        pool |-> IF book.active[n] = 1 /\ n \in book.block THEN Append(book.pool, n) ELSE book.pool,
        block |-> book.block]
  ELSE book

\* The sources first, then the dest of a RETURN or PARAM.
ReleasedBy(book, once, inst) ==
  LET sources == Released(Released(book, once, inst.src1), once, inst.src2)
  IN IF ReadsDest(inst) THEN Released(sources, once, inst.dest) ELSE sources

\* A temporary without a name gets the last one that became free, or its own.
Named(book, o) ==
  IF ~ (IsLocal(o) /\ IsTempName(o.name)) \/ o.name \in DOMAIN book.renamed THEN book
  ELSE LET n == IF book.pool = << >> THEN o.name ELSE book.pool[Len(book.pool)] IN
       [renamed |-> [t \in DOMAIN book.renamed \union {o.name} |->
                       IF t = o.name THEN n ELSE book.renamed[t]],
        active |-> [book.active EXCEPT ![n] = @ + 1],
        pool |-> IF book.pool = << >> THEN << >> ELSE Front(book.pool),
        block |-> book.block \union {n}]

\* The operands of a RETURN or PARAM: its dest is resolved with the others,
\* and then handled as a definition, as it is in the code.
ReadOperands(book, inst) ==
  [inst EXCEPT !.src1 = Resolved(book, @), !.src2 = Resolved(book, @),
               !.dest = IF ReadsDest(inst) THEN Resolved(book, @) ELSE @]

RecycleStep(state, once, inst) ==
  LET entered == BlockEntered(state.book, inst)
      read == ReadOperands(entered, inst)
      named == Named(ReleasedBy(entered, once, inst), read.dest)
      written == IF IsLocal(read.dest) /\ IsTempName(read.dest.name)
                 THEN [read EXCEPT !.dest = Resolved(named, @)] ELSE read
  IN [book |-> named, code |-> Append(state.code, written)]

Recycled(ir) ==
  LET once == ReadOnce(ir)
      walk[k \in 0..Len(ir)] ==
        IF k = 0 THEN [book |-> NewBook(LocalsOf(ir)), code |-> << >>]
        ELSE CHOOSE next \in {RecycleStep(before, once, ir[k]) : before \in {walk[k - 1]}} : TRUE
  IN walk[Len(ir)].code
===============================================================================
