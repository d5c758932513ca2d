---------------------------- MODULE Annotations -----------------------------
(***************************************************************************)
(* The generator's reading of one source file (generator_source.c,         *)
(* generator_annotations.c, generator_route.c).  A file is a sequence of   *)
(* lines that are read one after the other; an annotation is kept pending  *)
(* in the ParseState until the line it belongs to arrives, so what a line  *)
(* means depends on all the lines above it.  One error anywhere and        *)
(* nothing is generated, so reading stops at the first one.                *)
(*                                                                         *)
(* A line is its kind and what later lines can depend on: the name and the *)
(* type of what it declares, the flags or the role it carries, its tokens  *)
(* that matter to a $transaction block.  Malformed arguments of an         *)
(* annotation are the line "malformed".                                    *)
(***************************************************************************)
EXTENDS Integers, Sequences, FiniteSets, FiniteSetsExt, SequencesExt

CONSTANTS
    Sources,          \* the files: the sets of lines for their 1st, 2nd... line
    MaxTransactions,  \* 16 in ParseState.transaction_depths
    MaxFields,        \* GENERATOR_MAX_FIELDS
    MaxDeclared       \* GENERATOR_MAX_ROUTES, _SERVICES, _TYPES and _STORES,
                      \* SCHEDULER_MAX_TASKS: one limit for each list

NoRole == "none"

\* The lines with a name, and those that are only what they are.
NamedKinds == {"signature", "prototype", "oneline", "head", "store", "table", "json", "pick"}

PlainKinds ==
    {"blank", "malformed", "transactional", "authenticated", "public", "produces",
     "route", "repeat", "on_start", "tail", "open", "close", "else", "tx", "txopen",
     "return", "statement", "typeclose", "references"}

Lines ==
    [kind : PlainKinds] \union [kind : NamedKinds, name : STRING]
    \union [kind : {"role"}, role : STRING \ {NoRole}]
    \union [kind : {"rule"}, rule : STRING]
    \union [kind : {"flags"}, flags : SUBSET STRING]
    \union [kind : {"field"}, name : STRING, type : STRING, flags : SUBSET STRING]

ASSUME AnnotationsAssumption ==
    /\ MaxTransactions \in Nat /\ MaxFields \in Nat /\ MaxDeclared \in Nat
    /\ \A source \in Sources : source \in Seq(SUBSET Lines)

VARIABLES
    text,     \* the lines read so far, a history of the input
    file,     \* the member of Sources that is read
    ps,       \* ParseState and the part of Generator that the file fills
    verdict   \* "reading", "refused" or "accepted"

annotationVars == <<text, file, ps, verdict>>

ParserInit ==
    [ lineno |-> 0, inStruct |-> FALSE, needOpen |-> FALSE,
      failed |-> FALSE, auth |-> FALSE, public |-> FALSE, role |-> NoRole,
      produces |-> FALSE,
      transactional |-> FALSE, routeArmed |-> FALSE, taskArmed |-> FALSE,
      joining |-> <<>>, depth |-> 0, txArmed |-> FALSE, txDepths |-> <<>>,
      pending |-> {}, rules |-> {}, references |-> FALSE,
      routes |-> <<>>, services |-> <<>>, tasks |-> <<>>, stores |-> <<>>,
      functions |-> <<>>, types |-> <<>> ]

AnnotationsInit ==
    /\ text = <<>>
    /\ file \in Sources
    /\ ps = ParserInit
    /\ verdict = "reading"

Fail(p) == [p EXCEPT !.failed = TRUE]

Full(list) == Len(list) >= MaxDeclared

Declared(list, name) == \E i \in DOMAIN list : list[i].name = name

-----------------------------------------------------------------------------
(* $transaction blocks: guard_transaction                                  *)

(***************************************************************************)
(* The tokens that count, quotes and comments aside.                       *)
(***************************************************************************)
Tokens(line) ==
    CASE line.kind = "open"       -> <<"open">>
      [] line.kind = "close"      -> <<"close">>
      [] line.kind = "else"       -> <<"close", "open">>
      [] line.kind = "tx"         -> <<"transaction">>
      [] line.kind = "txopen"     -> <<"transaction", "open">>
      [] line.kind = "return"     -> <<"return">>
      [] line.kind = "oneline"    -> <<"open", "return", "close">>
      [] line.kind = "typeclose"  -> <<"close">>
      [] OTHER                    -> <<>>

\* Variant: any closing brace ends the innermost block of a transaction.
EndsTransactionAny(p) == p.txDepths # <<>>

EndsTransaction(p) == p.txDepths # <<>> /\ Last(p.txDepths) = p.depth

OpenBrace(p) ==
    LET full == Len(p.txDepths) >= MaxTransactions
    IN  [p EXCEPT !.depth = @ + 1,
                  !.failed = @ \/ (p.txArmed /\ full),
                  !.txDepths = IF p.txArmed /\ ~full
                               THEN Append(@, p.depth + 1) ELSE @,
                  !.txArmed = FALSE]

CloseBrace(p) ==
    [p EXCEPT !.txDepths = IF EndsTransaction(p) THEN Front(@) ELSE @,
              !.depth = IF @ > 0 THEN @ - 1 ELSE 0]

GuardToken(p, token) ==
    CASE token = "open"            -> OpenBrace(p)
      [] token = "close"            -> CloseBrace(p)
      [] token = "transaction" -> [p EXCEPT !.txArmed = TRUE]
      [] token = "return"       -> [p EXCEPT !.failed = @ \/ p.txDepths # <<>>]

GuardTransaction(p, line) ==
    LET after[k \in 0..Len(Tokens(line))] ==
            IF k = 0 THEN p ELSE GuardToken(after[k - 1], Tokens(line)[k])
    IN  after[Len(Tokens(line))]

-----------------------------------------------------------------------------
(* Declarations above the level of a type                                  *)

\* A public function is a signature alone on its line, at brace depth 0.
CollectFunction(p, line) ==
    IF p.depth = 0 /\ line.kind = "signature"
    THEN IF Full(p.functions) \/ Declared(p.functions, line.name)
         THEN Fail(p)
         ELSE [p EXCEPT !.functions =
                 Append(@, [name |-> line.name, at |-> p.lineno])]
    ELSE p

ParseTransactional(p) ==
    IF p.depth # 0 \/ p.transactional THEN Fail(p)
    ELSE [p EXCEPT !.transactional = TRUE]

AuthKinds == {"authenticated", "public", "role"}

ParseAuth(p, line) ==
    CASE line.kind = "authenticated" -> [p EXCEPT !.auth = TRUE]
      [] line.kind = "public"        -> [p EXCEPT !.public = TRUE]
      [] line.kind = "role"          -> [p EXCEPT !.role = line.role]

ParseProduces(p) ==
    IF p.produces THEN Fail(p) ELSE [p EXCEPT !.produces = TRUE]

PendingRoute(p) ==
    [ auth |-> p.auth, public |-> p.public, role |-> p.role,
      transactional |-> p.transactional, produces |-> p.produces ]

TakePending(p) ==
    [p EXCEPT !.failed = @ \/ (p.public /\ (p.auth \/ p.role # NoRole)),
              !.auth = FALSE, !.public = FALSE, !.role = NoRole,
              !.transactional = FALSE, !.produces = FALSE]

\* A signature with the parameters its path asks for, alone on its line.
ParseRoute(p, line) ==
    LET q == [p EXCEPT !.routeArmed = FALSE]
    IN  IF Full(p.routes) \/ line.kind # "signature" THEN Fail(q)
        ELSE [TakePending(q) EXCEPT
                !.routes = Append(@, [name |-> line.name, at |-> p.lineno,
                                      notes |-> PendingRoute(p)])]

ParseStore(p, line) ==
    IF Full(p.stores) \/ Declared(p.stores, line.name) THEN Fail(p)
    ELSE [p EXCEPT !.stores = Append(@, [name |-> line.name, at |-> p.lineno])]

TaskKinds == {"repeat", "on_start"}

ParseRepeat(p) ==
    IF p.taskArmed THEN Fail(p) ELSE [p EXCEPT !.taskArmed = TRUE]

\* A task may also be a prototype, or have its body on the same line.
ParseTask(p, line) ==
    LET q == [p EXCEPT !.taskArmed = FALSE]
    IN  IF \/ Full(p.tasks)
           \/ line.kind \notin {"signature", "prototype", "oneline"}
        THEN Fail(q)
        ELSE [q EXCEPT !.tasks = Append(@, [name |-> line.name, at |-> p.lineno])]

\* Variant: annotations that precede no route are dropped and not reported.
DropDanglingQuietly(p) ==
    [p EXCEPT !.auth = FALSE, !.public = FALSE, !.role = NoRole,
              !.produces = FALSE]

DropDanglingAuth(p) ==
    IF p.auth \/ p.public \/ p.role # NoRole \/ p.produces
    THEN Fail([p EXCEPT !.auth = FALSE, !.public = FALSE, !.role = NoRole,
                        !.produces = FALSE])
    ELSE p

ParseService(p, line) ==
    LET q == [p EXCEPT !.transactional = FALSE]
    IN  IF Full(p.services) \/ line.kind # "signature" THEN Fail(q)
        ELSE [q EXCEPT !.services =
                Append(@, [name |-> line.name, at |-> p.lineno])]

OpenType(p, line) ==
    IF Full(p.types) \/ Declared(p.types, line.name) THEN Fail(p)
    ELSE [p EXCEPT !.types = Append(@, [name |-> line.name, fields |-> <<>>,
                                        json |-> line.kind = "json"]),
                   !.inStruct = TRUE, !.needOpen = TRUE, !.pending = {}]

\* The rest of parse_top_level_line, once no annotation has taken the line.
ParseDeclaration(p, line) ==
    CASE p.transactional                   -> ParseService(p, line)
      [] ~p.transactional /\ line.kind \in {"table", "json"}
                                           -> OpenType(p, line)
      [] OTHER                             -> p

ParseTopLevel(p, line) ==
    CASE line.kind = "blank"          -> p
      [] line.kind = "malformed"      -> Fail(p)
      [] line.kind = "transactional"  -> ParseTransactional(p)
      [] line.kind \in AuthKinds      -> ParseAuth(p, line)
      [] line.kind = "produces"       -> ParseProduces(p)
      [] OTHER ->
           CASE p.routeArmed              -> ParseRoute(p, line)
             [] ~p.routeArmed /\ line.kind = "store" -> ParseStore(p, line)
             [] ~p.routeArmed /\ line.kind \in TaskKinds -> ParseRepeat(p)
             [] OTHER ->
                  IF p.taskArmed THEN ParseTask(p, line)
                  ELSE IF line.kind = "route"
                       THEN [p EXCEPT !.routeArmed = TRUE]
                       ELSE ParseDeclaration(DropDanglingAuth(p), line)

-----------------------------------------------------------------------------
(* The body of a type                                                      *)

Fields(p) == Last(p.types).fields

NamesOf(fields) == {fields[i].name : i \in DOMAIN fields}

AddField(p, field) ==
    [p EXCEPT !.types[Len(p.types)].fields = Append(@, field)]

\* A $pick comes first in a $json and brings fields of its own.
ParsePick(p, line) ==
    IF \/ ~Last(p.types).json \/ Fields(p) # <<>>
       \/ p.pending # {} \/ p.rules # {} \/ p.references
    THEN Fail(p)
    ELSE AddField(p, [name |-> line.name, at |-> p.lineno, flags |-> {},
                      rules |-> {}, references |-> FALSE])

RuleAnnotation(p, line) ==
    IF line.rule \in p.rules THEN Fail(p)
    ELSE [p EXCEPT !.rules = @ \union {line.rule}]

ParseReferences(p) ==
    IF p.references THEN Fail(p) ELSE [p EXCEPT !.references = TRUE]

\* Bounds are for numbers, $email and $size for text; the id is an int.
CheckValidation(line, rules) ==
    /\ rules \intersect {"min", "max"} # {} => line.type = "int"
    /\ rules \intersect {"size", "email"} # {} => line.type = "str"

FieldConflicts(p, field, line) ==
    \/ "id" \in field.flags /\ line.type # "int"
    \/ field.name \in NamesOf(Fields(p))
    \/ \E i \in DOMAIN Fields(p) : "id" \in Fields(p)[i].flags \intersect field.flags

ParseField(p, line) ==
    LET field == [ name |-> line.name, at |-> p.lineno,
                   flags |-> line.flags \union p.pending, rules |-> p.rules,
                   references |-> p.references ]
        q == [p EXCEPT !.rules = {}, !.references = FALSE, !.pending = {}]
    IN  IF \/ Len(Fields(p)) >= MaxFields
           \/ ~CheckValidation(line, p.rules)
           \/ FieldConflicts(p, field, line)
        THEN Fail(q)
        ELSE AddField(q, field)

ParseTypeBody(p, line) ==
    CASE line.kind = "pick"       -> ParsePick(p, line)
      [] line.kind = "rule"       -> RuleAnnotation(p, line)
      [] line.kind = "references" -> ParseReferences(p)
      [] line.kind = "flags"      -> [p EXCEPT !.pending = @ \union line.flags]
      [] line.kind = "field"      -> ParseField(p, line)
      [] OTHER                    -> Fail(p)

HandleClose(p, line) ==
    [p EXCEPT !.failed = \/ @ \/ line.kind # "typeclose"
                         \/ p.pending # {} \/ p.references \/ p.rules # {}
                         \/ Fields(p) = <<>>,
              !.inStruct = FALSE, !.needOpen = FALSE, !.pending = {}]

ParseStruct(p, line) ==
    CASE line.kind = "blank" -> p
      [] line.kind # "blank" /\ p.needOpen ->
            [p EXCEPT !.failed = @ \/ line.kind # "open", !.needOpen = FALSE]
      [] line.kind \in {"close", "else", "typeclose"} /\ ~p.needOpen ->
            HandleClose(p, line)
      [] OTHER -> ParseTypeBody(p, line)

ParseSourceLine(p, line) ==
    IF p.inStruct THEN ParseStruct(p, line)
    ELSE ParseTopLevel(GuardTransaction(CollectFunction(p, line), line), line)

-----------------------------------------------------------------------------
(* The file                                                                *)

\* The first line of a signature that goes on below, where one may begin.
StartsSignature(p, line) ==
    line.kind = "head" /\ ~p.inStruct /\ p.depth = 0

Reading == verdict = "reading" /\ Len(text) < Len(file)

Numbered == [ps EXCEPT !.lineno = Len(text) + 1]

Read(line, p) ==
    /\ text' = Append(text, line)
    /\ ps' = p
    /\ verdict' = IF p.failed THEN "refused" ELSE "reading"
    /\ UNCHANGED file

ReadLine(line) ==
    /\ ps.joining = <<>> /\ line.kind \notin {"head", "tail"}
    /\ Read(line, ParseSourceLine(Numbered, line))

BeginSignature(line) ==
    /\ ps.joining = <<>> /\ StartsSignature(ps, line)
    /\ Read(line, [Numbered EXCEPT !.joining = <<line.name>>])

\* The lines of a signature are joined until its parentheses balance, and
\* are then one line with the number of the first.
JoinSignature(line) ==
    /\ ps.joining # <<>> /\ line.kind \in {"blank", "tail"}
    /\ Read(line, IF line.kind = "blank" THEN ps
                  ELSE ParseSourceLine([ps EXCEPT !.joining = <<>>],
                           [kind |-> "signature", name |-> ps.joining[1]]))

Unfinished ==
    \/ ps.joining # <<>> \/ ps.routeArmed \/ ps.taskArmed \/ ps.inStruct
    \/ ps.auth \/ ps.public \/ ps.role # NoRole \/ ps.produces
    \/ ps.transactional

Twice(list) ==
    \E i, j \in DOMAIN list : i < j /\ list[i].name = list[j].name

Shared(one, other) ==
    \E i \in DOMAIN one, j \in DOMAIN other : one[i].name = other[j].name

\* validate_services, validate_tasks and validate_file_roles on one file.
ClashingDeclarations ==
    \/ Twice(ps.services) \/ Shared(ps.services, ps.routes)
    \/ Twice(ps.tasks) \/ Shared(ps.tasks, ps.routes)
    \/ ps.types # <<>> /\ ps.functions # <<>>
    \/ ps.services # <<>> /\ (ps.types # <<>> \/ ps.routes # <<>>)

EndOfFile ==
    /\ verdict = "reading"
    /\ verdict' = IF Unfinished \/ ClashingDeclarations
                  THEN "refused" ELSE "accepted"
    /\ UNCHANGED <<text, file, ps>>

AnnotationsNext ==
    \/ /\ Reading
       /\ \E line \in file[Len(text) + 1] :
             ReadLine(line) \/ BeginSignature(line) \/ JoinSignature(line)
    \/ EndOfFile

AnnotationsSpec == AnnotationsInit /\ [][AnnotationsNext]_annotationVars

-----------------------------------------------------------------------------
(* What the reading must mean.  The references below look at the text only. *)

Kind(i) == text[i].kind

RouteNotes == AuthKinds \union {"produces", "transactional"}

\* The first line below i that is not of one of these kinds.
FirstBelow(i, j, passed) ==
    /\ i < j /\ Kind(j) \notin passed
    /\ \A k \in (i + 1)..(j - 1) : Kind(k) \in passed

\* The lines above j, down from the nearest line of bounds.
Above(j, bounds) ==
    {i \in 1..(j - 1) : \A b \in bounds : ~(i <= b /\ b < j)}

Ats(list) == {list[i].at : i \in DOMAIN list}

RoutesBind ==
    LET lines == {i \in DOMAIN text : Kind(i) = "route"}
        said(k, j) == \E i \in Above(j, Ats(ps.routes)) : Kind(i) = k
        roles(j) == {i \in Above(j, Ats(ps.routes)) : Kind(i) = "role"}
    IN  /\ Len(ps.routes) = Cardinality(lines)
        /\ \A i \in lines : \E r \in DOMAIN ps.routes :
              FirstBelow(i, ps.routes[r].at, RouteNotes \union {"blank"})
        /\ \A r \in DOMAIN ps.routes :
              LET j == ps.routes[r].at
                  notes == ps.routes[r].notes
              IN  /\ notes.auth <=> said("authenticated", j)
                  /\ notes.public <=> said("public", j)
                  /\ notes.produces <=> said("produces", j)
                  /\ notes.transactional <=> said("transactional", j)
                  /\ notes.role = IF roles(j) = {} THEN NoRole
                                  ELSE text[Max(roles(j))].role
        /\ \A i \in DOMAIN text : Kind(i) \in AuthKinds \union {"produces"} =>
              \E j \in Ats(ps.routes) : i < j

ServicesBind ==
    LET lines == {i \in DOMAIN text : Kind(i) = "transactional"}
        scoped == Ats(ps.services) \union
                  {j \in Ats(ps.routes) : \E r \in DOMAIN ps.routes :
                      ps.routes[r].at = j /\ ps.routes[r].notes.transactional}
    IN  /\ Cardinality(scoped) = Cardinality(lines)
        /\ \A j \in scoped :
              \E i \in Above(j, Ats(ps.services) \union Ats(ps.routes)) :
                 i \in lines

TasksBind ==
    LET lines == {i \in DOMAIN text : Kind(i) \in TaskKinds}
    IN  /\ Len(ps.tasks) = Cardinality(lines)
        /\ \A i \in lines : \E t \in DOMAIN ps.tasks :
              FirstBelow(i, ps.tasks[t].at,
                         RouteNotes \union {"blank", "store"})

FieldsBind ==
    \A t \in DOMAIN ps.types : \A f \in DOMAIN ps.types[t].fields :
        LET field == ps.types[t].fields[f]
            starts == {i \in DOMAIN text : Kind(i) \in {"open", "pick", "field"}}
            above == Above(field.at, starts)
        IN  Kind(field.at) = "field" =>
              /\ field.flags = text[field.at].flags \union
                    UNION {text[i].flags : i \in {k \in above : Kind(k) = "flags"}}
              /\ field.rules =
                    {text[i].rule : i \in {k \in above : Kind(k) = "rule"}}
              /\ field.references <=> \E i \in above : Kind(i) = "references"

(***************************************************************************)
(* In a file that is accepted every annotation is bound to one declaration *)
(* and every declaration has the annotations written above it, no others:  *)
(* a $role or $authenticated never reaches the route after its own, and    *)
(* none is lost (parse_top_level_line, take_pending_annotations,           *)
(* parse_type_body_line).                                                  *)
(***************************************************************************)
AnnotationsBind ==
    verdict = "accepted" =>
        RoutesBind /\ ServicesBind /\ TasksBind /\ FieldsBind

(***************************************************************************)
(* A return between the braces of a $transaction block would leave it      *)
(* without its end, so no accepted file has one, however the braces inside *)
(* the block nest (guard_transaction).                                     *)
(***************************************************************************)
NoReturnEscapes ==
    LET stream == FlattenSeq([i \in DOMAIN text |-> Tokens(text[i])])
        count(a, b, token) == Cardinality({i \in a..b : stream[i] = token})
        opens(r, p) ==
            /\ stream[r] = "transaction" /\ stream[p] = "open" /\ r < p
            /\ \A i \in (r + 1)..(p - 1) : stream[i] # "open"
        inside(p, q) ==
            /\ p < q
            /\ \A i \in p..q : count(p, i, "open") > count(p, i, "close")
    IN  verdict = "accepted" =>
            ~ \E r, p, q \in DOMAIN stream :
                 stream[q] = "return" /\ opens(r, p) /\ inside(p, q)

=============================================================================
