--------------------------- MODULE DependencyScan ---------------------------
(***************************************************************************)
(* What the WHERE clause of a shape depends on: the sanitizer              *)
(* (internal/sqlinspect/inspect.go), the scanner for the tables of its     *)
(* subqueries (internal/pg/dependency_scan.go) and the classification of   *)
(* definitions built on it (internal/pg/relation_cache.go).                *)
(*                                                                         *)
(* A clause is a sequence of lexemes: words (in lower case), the symbols   *)
(* that the tokenizer keeps, and the marks of literals and comments.  A    *)
(* quoted identifier is a word that is no keyword.  A relation is a pair   *)
(* of a schema and a table.                                                *)
(***************************************************************************)
EXTENDS Naturals, Sequences, FiniteSets
LOCAL INSTANCE FiniteSetsExt

Symbols == {"(", ")", ",", "."}
Marks   == {"'", "--", "newline", "/*", "*/"}

Identifier(token) == token \notin Symbols

\* A token at a place that may be past the end.
At(tokens, i, token) == i <= Len(tokens) /\ tokens[i] = token
IdentifierAt(tokens, i) == i <= Len(tokens) /\ Identifier(tokens[i])

-----------------------------------------------------------------------------
(***************************************************************************)
(* SanitizeClause: literals and comments are replaced by a space.          *)
(***************************************************************************)
RECURSIVE Sanitize(_, _, _)
Sanitize(clause, i, mode) ==
  IF i > Len(clause) THEN <<>>
  ELSE LET ch == clause[i]
       IN  CASE mode = "line" ->
                  Sanitize(clause, i + 1, IF ch = "newline" THEN "code" ELSE "line")
             [] mode = "block" ->
                  Sanitize(clause, i + 1, IF ch = "*/" THEN "code" ELSE "block")
             [] mode = "quoted" ->
                  IF ch = "'" /\ At(clause, i + 1, "'") THEN Sanitize(clause, i + 2, "quoted")
                  ELSE Sanitize(clause, i + 1, IF ch = "'" THEN "code" ELSE "quoted")
             [] mode = "code" ->
                  CASE ch = "'"  -> Sanitize(clause, i + 1, "quoted")
                    [] ch = "--" -> Sanitize(clause, i + 1, "line")
                    [] ch = "/*" -> Sanitize(clause, i + 1, "block")
                    [] OTHER     -> <<ch>> \o Sanitize(clause, i + 1, "code")

SanitizeClause(clause) == Sanitize(clause, 1, "code")

ContainsDependencyKeyword(clause) ==
  LET s == SanitizeClause(clause)
  IN  \E i \in DOMAIN s :
        s[i] \in {"select", "join", "exists", "with", "union", "intersect", "except"}

tokenizeDependencyClause(clause) == SelectSeq(clause, LAMBDA ch : ch \notin Marks)

-----------------------------------------------------------------------------
(***************************************************************************)
(* Walking over tokens.                                                    *)
(***************************************************************************)
\* The place of the parenthesis that closes the one at i, or 0.
findDependencyBalancedClose(tokens, i) ==
  LET opened(j) == Cardinality({k \in i .. j : tokens[k] = "("})
      closed(j) == Cardinality({k \in i .. j : tokens[k] = ")"})
      closes    == {j \in i .. Len(tokens) : tokens[j] = ")" /\ opened(j) = closed(j)}
  IN  IF At(tokens, i, "(") /\ closes # {} THEN Min(closes) ELSE 0

\* Past the parentheses at i, if there are any.
skipDependencyBalanced(tokens, i) ==
  LET close == findDependencyBalancedClose(tokens, i)
  IN  IF ~At(tokens, i, "(") THEN i ELSE IF close = 0 THEN i + 1 ELSE close + 1

FromBoundary == {"where", "group", "having", "order", "limit", "offset", "union", "intersect",
                 "except", "window", "returning", "qualify"}

AliasBoundary == FromBoundary \cup {"on", "using", "join", "inner", "left", "right", "full",
                                    "cross", "natural"}

skipDependencyAlias(tokens, i) ==
  CASE At(tokens, i, "as") ->
         skipDependencyBalanced(tokens, IF IdentifierAt(tokens, i + 1) THEN i + 2 ELSE i + 1)
    [] IdentifierAt(tokens, i) /\ tokens[i] \notin AliasBoundary \cup {"as"} ->
         skipDependencyBalanced(tokens, i + 1)
    [] OTHER -> i

\* The names of the common table expressions from place i of a WITH list, and
\* where the list ends.
RECURSIVE CTEList(_, _)
CTEList(tokens, i) ==
  IF ~IdentifierAt(tokens, i) THEN [names |-> {}, next |-> i]
  ELSE LET columns == skipDependencyBalanced(tokens, i + 1)
           body    == IF At(tokens, columns, "as") THEN columns + 1 ELSE columns
           end     == skipDependencyBalanced(tokens, body)
           rest    == CTEList(tokens, end + 1)
       IN  IF At(tokens, end, ",")
           THEN [names |-> {tokens[i]} \cup rest.names, next |-> rest.next]
           ELSE [names |-> {tokens[i]}, next |-> end]

RECURSIVE CTENamesFrom(_, _)
CTENamesFrom(tokens, i) ==
  IF i > Len(tokens) THEN {}
  ELSE IF tokens[i] # "with" THEN CTENamesFrom(tokens, i + 1)
  ELSE LET list == CTEList(tokens, IF At(tokens, i + 1, "recursive") THEN i + 2 ELSE i + 1)
       IN  list.names \cup CTENamesFrom(tokens, list.next + 1)

collectDependencyCTENames(tokens) == CTENamesFrom(tokens, 1)

\* A reference to a table at i: its relation, unless it names a common table
\* expression, and the place after it.
readDependencyRelationReference(tokens, i, schema, ctes) ==
  IF At(tokens, i + 1, ".") /\ IdentifierAt(tokens, i + 2)
  THEN [relations |-> {<<tokens[i], tokens[i + 2]>>}, next |-> i + 3]
  ELSE [relations |-> IF tokens[i] \in ctes THEN {} ELSE {<<schema, tokens[i]>>}, next |-> i + 1]

-----------------------------------------------------------------------------
(***************************************************************************)
(* scanDependencyTokens and consumeDependencyRelation, which call each     *)
(* other: the relations after FROM, JOIN and the commas of a FROM list.    *)
(***************************************************************************)
NothingScanned == [depth |-> 0, inFromList |-> FALSE, fromDepth |-> 0,
                   expectRelation |-> FALSE, relations |-> {}, wildcard |-> FALSE]

RECURSIVE ScanTokens(_, _, _, _, _)
RECURSIVE consumeDependencyRelation(_, _, _, _)

\* Mutant: a comma of the FROM list is not followed by a relation.
ScanWordNoComma(token, st) ==
  LET inList == st.inFromList /\ ~(st.depth <= st.fromDepth /\ token \in FromBoundary)
  IN  CASE token = "from" -> [st EXCEPT !.inFromList = TRUE, !.fromDepth = st.depth,
                                        !.expectRelation = TRUE]
        [] token = "join" -> [st EXCEPT !.inFromList = inList, !.expectRelation = TRUE]
        [] OTHER -> [st EXCEPT !.inFromList = inList]

\* The scan after a word or a comma.
ScanWord(token, st) ==
  LET inList == st.inFromList /\ ~(st.depth <= st.fromDepth /\ token \in FromBoundary)
  IN  CASE token = "from" -> [st EXCEPT !.inFromList = TRUE, !.fromDepth = st.depth,
                                        !.expectRelation = TRUE]
        [] token = "join" -> [st EXCEPT !.inFromList = inList, !.expectRelation = TRUE]
        [] token = "," /\ inList /\ st.depth = st.fromDepth ->
             [st EXCEPT !.expectRelation = TRUE]
        [] OTHER -> [st EXCEPT !.inFromList = inList]

ScanTokens(tokens, i, schema, ctes, st) ==
  IF i > Len(tokens) THEN [relations |-> st.relations, wildcard |-> st.wildcard]
  ELSE IF st.expectRelation
  THEN LET c == consumeDependencyRelation(tokens, i, schema, ctes)
       IN  ScanTokens(tokens, c.next, schema, ctes,
                      [st EXCEPT !.expectRelation = FALSE,
                                 !.relations = @ \cup c.relations,
                                 !.wildcard = @ \/ c.wildcard])
  ELSE ScanTokens(tokens, i + 1, schema, ctes,
         CASE tokens[i] = "(" -> [st EXCEPT !.depth = @ + 1]
           [] tokens[i] = ")" -> [st EXCEPT !.inFromList = @ /\ st.depth > st.fromDepth,
                                            !.depth = IF @ > 0 THEN @ - 1 ELSE 0]
           [] OTHER -> ScanWord(tokens[i], st))

scanDependencyTokens(tokens, schema, ctes) == ScanTokens(tokens, 1, schema, ctes, NothingScanned)

\* What stands where a relation is expected: a table, a table in parentheses, a
\* subquery or a function call.  Anything else, and a parenthesis that is not
\* closed, makes the result a wildcard.
consumeDependencyRelation(tokens, i, schema, ctes) ==
  LET unknown(next) == [next |-> next, relations |-> {}, wildcard |-> TRUE]
      inside(open)  == SubSeq(tokens, open + 1, findDependencyBalancedClose(tokens, open) - 1)
      after(open)   == skipDependencyAlias(tokens, findDependencyBalancedClose(tokens, open) + 1)
      scanned(open) == LET s == scanDependencyTokens(inside(open), schema, ctes)
                       IN  [next |-> after(open), relations |-> s.relations,
                            wildcard |-> s.wildcard]
  IN  CASE i > Len(tokens) -> unknown(i)
        [] i <= Len(tokens) /\ tokens[i] \in {"only", "lateral"} ->
             consumeDependencyRelation(tokens, i + 1, schema, ctes)
        [] At(tokens, i, "(") ->
             IF findDependencyBalancedClose(tokens, i) = 0 THEN unknown(i + 1)
             ELSE LET ref == readDependencyRelationReference(inside(i), 1, schema, ctes)
                  IN  IF IdentifierAt(inside(i), 1) /\ ref.relations # {}
                         /\ ref.next = Len(inside(i)) + 1
                      THEN [next |-> after(i), relations |-> ref.relations, wildcard |-> FALSE]
                      ELSE scanned(i)
        [] IdentifierAt(tokens, i) /\ tokens[i] \notin {"only", "lateral"} ->
             LET ref == readDependencyRelationReference(tokens, i, schema, ctes)
             IN  IF ~At(tokens, ref.next, "(")
                 THEN [next |-> skipDependencyAlias(tokens, ref.next),
                       relations |-> ref.relations, wildcard |-> FALSE]
                 ELSE IF findDependencyBalancedClose(tokens, ref.next) = 0
                 THEN unknown(ref.next + 1)
                 ELSE scanned(ref.next)
        [] OTHER -> unknown(i + 1)

scanDependencyRelations(clause, schema) ==
  LET tokens == tokenizeDependencyClause(clause)
  IN  scanDependencyTokens(tokens, schema, collectDependencyCTENames(tokens))

-----------------------------------------------------------------------------
(***************************************************************************)
(* The classification of a definition, given its table and its clause.     *)
(***************************************************************************)
definitionSupportsTargetedRefresh(where) == ~ContainsDependencyKeyword(where)

\* The tables a change of which reaches the shape; any table for a wildcard.
liveDependenciesForDefinition(relation, where) ==
  LET scan == scanDependencyRelations(SanitizeClause(where), relation[1])
  IN  IF ~ContainsDependencyKeyword(where)
      THEN [unsupported |-> FALSE, wildcard |-> FALSE, relations |-> {}]
      ELSE [unsupported |-> TRUE,
            wildcard    |-> scan.wildcard \/ scan.relations = {},
            relations   |-> scan.relations \cup {relation}]

dependencyClauseRequiresInvalidation(where) ==
  LET tokens == tokenizeDependencyClause(SanitizeClause(where))
  IN  /\ ContainsDependencyKeyword(where)
      /\ \/ \E i \in DOMAIN tokens :
              tokens[i] \in {"not", "exists", "with", "join", "lateral", "union", "intersect",
                             "except"}
         \/ Cardinality({i \in DOMAIN tokens : tokens[i] = "select"}) # 1

\* One other table, read by one plain subquery: the shape can be queried again.
definitionSupportsDependentRefresh(relation, where, deps) ==
  /\ deps.unsupported
  /\ ~deps.wildcard
  /\ Cardinality(deps.relations \ {relation}) = 1
  /\ ~dependencyClauseRequiresInvalidation(where)

\* A definition with what the code derives from its clause.
Derived(d) ==
  LET deps == liveDependenciesForDefinition(d.relation, d.where)
  IN  [relation |-> d.relation, columns |-> d.columns, filter |-> d.filter, reads |-> d.reads,
       targeted |-> definitionSupportsTargetedRefresh(d.where),
       deps     |-> deps,
       refresh  |-> definitionSupportsDependentRefresh(d.relation, d.where, deps)]

=============================================================================
