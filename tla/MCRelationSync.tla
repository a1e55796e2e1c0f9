--------------------------- MODULE MCRelationSync ---------------------------
(***************************************************************************)
(* Instances of RelationSync for TLC.  The WHERE clauses are built from    *)
(* phrases of SQL, each with the tables that SQL says it reads: the        *)
(* reference for the scanner, which sees the lexemes only.                 *)
(***************************************************************************)
EXTENDS RelationSync, DependencyScan, TLC

items     == <<"public", "items">>
flags     == <<"public", "flags">>       \* partitioned
flags_a   == <<"public", "flags_a">>     \* its partition
reasons   == <<"audit", "reasons">>
notes     == <<"public", "notes">>       \* without a primary key

MCTable == {items, flags, flags_a, reasons, notes}
MCRoot  == [t \in MCTable |-> IF t = flags_a THEN flags ELSE t]

Id    == [name |-> "id", type |-> "int4", key |-> TRUE]
Plain == [name |-> "id", type |-> "int4", key |-> FALSE]
V     == [name |-> "v",  type |-> "text", key |-> FALSE]
VInt  == [name |-> "v",  type |-> "int4", key |-> FALSE]

MCLayout == {<<Id, V>>, <<Id, VInt>>, <<V, Id>>, <<Id>>, <<Plain>>}

MCInitialLayout ==
  [t \in MCTable |-> CASE t = items   -> {<<V, Id>>}
                       [] t = notes   -> {<<Plain>>}
                       [] t = reasons -> {<<Id>>}
                       [] OTHER       -> {<<Id, V>>}]

\* Another type, a column dropped, a column added.
MCAlteration == {<<<<Id, V>>, <<Id, VInt>>>>, <<<<Id, V>>, <<Id>>>>, <<<<V, Id>>, <<Id>>>>,
                 <<<<Id>>, <<Id, V>>>>}

\* Where alterations lead, in any number of steps.  It is a witness of the hypothesis
\* of AlwaysCaughtUp in RelationProofs for this instance.
MCEvolves ==
  {<<a, a>> : a \in MCLayout} \cup MCAlteration
    \cup {<<<<Id>>, <<Id, VInt>>>>, <<<<V, Id>>, <<Id, V>>>>, <<<<V, Id>>, <<Id, VInt>>>>}

ASSUME EvolvesAssumption == Orders(MCEvolves)

-----------------------------------------------------------------------------
(***************************************************************************)
(* Phrases.                                                                *)
(***************************************************************************)
Phrase(toks, reads) == [toks |-> toks, reads |-> reads]
Word(w) == Phrase(<<w>>, {})

RECURSIVE Cat(_)
Cat(ps) == IF ps = <<>> THEN Phrase(<<>>, {})
           ELSE Phrase(ps[1].toks \o Cat(Tail(ps)).toks, ps[1].reads \cup Cat(Tail(ps)).reads)

Paren(p) == Cat(<<Word("("), p, Word(")")>>)
Named(t) == Phrase(<<t[2]>>, {t})
Qualified(t) == Phrase(<<t[1], ".", t[2]>>, {t})
As(p, alias) == Cat(<<p, Word("as"), Word(alias)>>)
Alias(p, alias) == Cat(<<p, Word(alias)>>)
Comma(p, q) == Cat(<<p, Word(","), q>>)
Join(p, q) == Cat(<<p, Word("join"), q, Word("on"), Word("true")>>)
Select(from) == Cat(<<Word("select"), Word("id"), Word("from"), from>>)
SelectWhere(from, cond) == Cat(<<Select(from), Word("where"), cond>>)
In(query) == Cat(<<Word("id"), Word("in"), Paren(query)>>)
Exists(query) == Cat(<<Word("exists"), Paren(query)>>)
And(p, q) == Cat(<<p, Word("and"), q>>)
Set(op, p, q) == Cat(<<p, Word(op), q>>)
With(name, query, main) == Cat(<<Word("with"), Word(name), Word("as"), Paren(query), main>>)
Literal(p) == Phrase(<<"'">> \o p.toks \o <<"'">>, {})
Remark(p) == Phrase(<<"/*">> \o p.toks \o <<"*/">>, {})
LineRemark(p) == Phrase(<<"--">> \o p.toks \o <<"newline">>, {})

F == Named(flags)
R == Qualified(reasons)

Clauses == {
  \* no subquery
  Word("true"),
  Cat(<<Word("v"), Literal(In(Select(F)))>>),
  Cat(<<Word("true"), Remark(In(Select(F)))>>),
  Cat(<<LineRemark(Literal(Word("x"))), Word("true")>>),
  \* one table
  In(Select(F)),
  In(Select(Named(flags_a))),
  In(Select(R)),
  In(Select(Named(notes))),
  In(Select(Named(items))),
  In(Select(As(F, "f"))),
  In(Select(Alias(F, "f"))),
  In(Select(Cat(<<Word("only"), F>>))),
  In(Select(Paren(F))),
  In(Select(Cat(<<F, Remark(Word("x"))>>))),
  In(SelectWhere(F, Cat(<<Word("v"), Literal(Word(")"))>>))),
  In(Select(Alias(Paren(Select(F)), "s"))),
  Cat(<<Word("id"), Word("not"), Word("in"), Paren(Select(F))>>),
  Exists(Select(F)),
  In(With("c", Select(F), Select(Word("c")))),
  In(Select(Cat(<<Word("unnest"), Paren(Word("ids"))>>))),
  \* several tables
  In(Select(Comma(F, R))),
  In(Select(Comma(As(F, "f"), Alias(R, "r")))),
  In(SelectWhere(Comma(Paren(F), R), Word("true"))),
  In(Select(Comma(Alias(Paren(Select(F)), "s"), R))),
  In(Select(Comma(Alias(Cat(<<Word("lateral"), Paren(Select(R))>>), "l"), F))),
  In(Select(Join(F, R))),
  In(Select(Join(F, Alias(Paren(Select(R)), "s")))),
  In(Select(Cat(<<Join(F, R), Word(","), Named(items)>>))),
  And(In(Select(F)), In(Select(R))),
  In(SelectWhere(F, In(Select(R)))),
  In(SelectWhere(F, Exists(Select(R)))),
  In(Set("union", Select(F), Select(R))),
  In(Set("except", Select(Comma(R, F)), Select(F))),
  In(With("c", Select(Comma(F, R)), Select(Word("c")))),
  In(With("c", Select(F), Select(Comma(Word("c"), R)))),
  In(Select(Comma(Cat(<<Word("unnest"), Paren(Paren(Select(F)))>>), R))) }

Define(t, columns, filter, p) ==
  [relation |-> t, columns |-> columns, where |-> p.toks, filter |-> filter,
   reads |-> p.reads \cup {t}]

Written ==
  {Define(items, {}, {}, p) : p \in Clauses}
    \cup {Define(items, {"id"}, filter, p) : filter \in {{}, {"v"}}, p \in {Word("true"), In(Select(F))}}
    \cup {Define(t, {}, {}, p) : t \in {flags, flags_a, notes},
                                 p \in {Word("true"), In(Select(Named(items)))}}

MCDefinition == {Derived(d) : d \in Written}

=============================================================================
