------------------------------- MODULE Models -------------------------------
(***************************************************************************)
(* The types of a project: what the generator makes of the $table and      *)
(* $json declarations of all the files (generator_projection.c,            *)
(* generator_validate.c) and the order in which it includes the model      *)
(* files (generator_emit_main.c).  A type may nest other types, or pick    *)
(* the fields of a table; C needs the type that is used to be complete     *)
(* where it is used, wherever the files happen to sort.                    *)
(***************************************************************************)
EXTENDS Integers, FiniteSetsExt, SequencesExt

CONSTANTS
    TypesMax,    \* how many types a project declares
    FileCount,   \* how many files it has
    NestingMax,  \* 8 in validate_nesting_depth
    Declarations \* what a type may say: see DeclareType

NoType == 0

\* A $pick stands in a $json: see ParsePick of Annotations.
ASSUME ModelsAssumption ==
    /\ TypesMax \in Nat /\ FileCount \in Nat /\ NestingMax \in Nat
    /\ Declarations \subseteq
           [json : BOOLEAN, nested : SUBSET Nat, pick : Nat, id : BOOLEAN, ref : Nat]
    /\ \A said \in Declarations : said.pick # NoType => said.json

VARIABLES
    types,     \* ctx->types: the types in the order of the files
    phase,     \* how far generator_validate_model and emit_units have come
    passes,    \* passes done of the loop of this phase
    nesting,   \* depth[] of validate_nesting_depth, 0 while unknown
    included   \* the model files, in the order they are included

modelVars == <<types, phase, passes, nesting, included>>

ModelsInit ==
    /\ types = <<>> /\ phase = "parse" /\ passes = 0
    /\ nesting = <<>> /\ included = <<>>

Names == 1..TypesMax

Exists(k) == k \in DOMAIN types

(***************************************************************************)
(* A type is its slot, its file and what it says: json or table, the type  *)
(* of its nested field, its $pick source, whether it has an $id and the    *)
(* table its foreign key references.  The files are read in order.         *)
(***************************************************************************)
DeclareType(said, file_index) ==
    /\ phase = "parse" /\ Len(types) < TypesMax
    /\ types # <<>> => Last(types).file <= file_index
    /\ types' = Append(types, [json |-> said.json, nested |-> said.nested,
                               pick |-> said.pick, id |-> said.id,
                               ref |-> said.ref, file |-> file_index])
    /\ UNCHANGED <<phase, passes, nesting, included>>

Decided(ok, next) == phase' = IF ok THEN next ELSE "refused"

PickSourceUsable(t) ==
    LET source == types[t].pick
    IN  source = NoType \/
        /\ Exists(source) /\ ~types[source].json
        /\ types[source].file = types[t].file => source < t

\* A picked field keeps its kind; its reference is dropped.
Resolved(t) ==
    LET source == types[t].pick
    IN  IF source = NoType \/ ~Exists(source) THEN types[t]
        ELSE [types[t] EXCEPT !.nested = @ \union types[source].nested]

ResolvePicks ==
    /\ phase = "parse" /\ types # <<>>
    /\ types' = [t \in DOMAIN types |-> Resolved(t)]
    /\ Decided(\A t \in DOMAIN types : PickSourceUsable(t), "fields")
    /\ UNCHANGED <<passes, nesting, included>>

(* What the validators say of the flags and the C type of a field is left  *)
(* out: it refuses more and has no part in the order.                      *)
NestedFieldValid(t, k) ==
    /\ Exists(k) /\ types[t].json
    /\ types[k].file = types[t].file => k < t

ReferenceValid(t) ==
    types[t].ref # NoType =>
        /\ ~types[t].json /\ Exists(types[t].ref)
        /\ types[types[t].ref].id /\ ~types[types[t].ref].json

ValidateTypeFields ==
    /\ phase = "fields"
    /\ Decided(\A t \in DOMAIN types :
                  /\ \A k \in types[t].nested : NestedFieldValid(t, k)
                  /\ ReferenceValid(t)
                  /\ ~(types[t].json /\ types[t].id), "nesting")
    /\ nesting' = [t \in DOMAIN types |-> 0]
    /\ UNCHANGED <<types, passes, included>>

-----------------------------------------------------------------------------
(* validate_nesting_depth: as many passes as there are types               *)

NestingOf(depth, t) ==
    LET below == {depth[k] : k \in types[t].nested}
    IN  IF 0 \in below THEN 0 ELSE 1 + Max(below \union {0})

NestingStep(depth, t) ==
    IF depth[t] # 0 THEN depth ELSE [depth EXCEPT ![t] = NestingOf(depth, t)]

NestingPass ==
    LET depth[t \in 0..Len(types)] ==
            IF t = 0 THEN nesting ELSE NestingStep(depth[t - 1], t)
    IN
    /\ phase = "nesting" /\ passes < Len(types)
    /\ nesting' = depth[Len(types)]
    /\ passes' = passes + 1
    /\ UNCHANGED <<types, phase, included>>

NestingDecided ==
    /\ phase = "nesting" /\ passes = Len(types)
    /\ Decided(\A t \in DOMAIN types : nesting[t] \in 1..NestingMax, "emit")
    /\ passes' = 0
    /\ UNCHANGED <<types, nesting, included>>

-----------------------------------------------------------------------------
(* emit_model_includes: as many passes as there are files                  *)

ModelFiles == {types[t].file : t \in DOMAIN types}

Uses(t) == types[t].nested \union ({types[t].pick} \ {NoType})

\* Variant: a pick does not wait for the file of its source.
ModelFileReadyNested(f, done) ==
    \A t \in DOMAIN types : types[t].file = f =>
        \A k \in types[t].nested :
            types[k].file = f \/ types[k].file \in ToSet(done)

ModelFileReady(f, done) ==
    \A t \in DOMAIN types : types[t].file = f =>
        \A k \in Uses(t) :
            types[k].file = f \/ types[k].file \in ToSet(done)

IncludeStep(done, f) ==
    IF f \in ModelFiles \ ToSet(done) /\ ModelFileReady(f, done)
    THEN Append(done, f) ELSE done

IncludePass ==
    LET done[f \in 0..FileCount] ==
            IF f = 0 THEN included ELSE IncludeStep(done[f - 1], f)
    IN
    /\ phase = "emit" /\ passes < FileCount
    /\ included' = done[FileCount]
    /\ passes' = passes + 1
    /\ UNCHANGED <<types, phase, nesting>>

IncludesDecided ==
    /\ phase = "emit" /\ passes = FileCount
    /\ Decided(ModelFiles \subseteq ToSet(included), "accepted")
    /\ UNCHANGED <<types, passes, nesting, included>>

ModelsNext ==
    \/ \E said \in Declarations, f \in 1..FileCount : DeclareType(said, f)
    \/ ResolvePicks \/ ValidateTypeFields
    \/ NestingPass \/ NestingDecided
    \/ IncludePass \/ IncludesDecided

ModelsSpec == ModelsInit /\ [][ModelsNext]_modelVars

-----------------------------------------------------------------------------
(* What decides, stated on the declarations alone.                         *)

\* A chain of n types, each nesting the next.
Chain(n) ==
    \E c \in [1..n -> DOMAIN types] :
        \A i \in 1..(n - 1) : c[i + 1] \in types[c[i]].nested

\* Some order of the model files has every file after the ones it uses.
SomeOrder ==
    \E pos \in [ModelFiles -> 1..Cardinality(ModelFiles)] :
        \A t \in DOMAIN types : \A k \in Uses(t) :
            types[k].file # types[t].file => pos[types[k].file] < pos[types[t].file]

WellFormed ==
    /\ \A t \in DOMAIN types :
          /\ \A k \in Uses(t) : Exists(k) /\ types[t].json
          /\ \A k \in Uses(t) : types[k].file = types[t].file => k < t
          /\ types[t].pick # NoType => ~types[types[t].pick].json
          /\ ReferenceValid(t) /\ ~(types[t].json /\ types[t].id)
    /\ ~Chain(NestingMax + 1)
    /\ SomeOrder

(***************************************************************************)
(* The project is accepted exactly when its types can be declared: then    *)
(* every file with a type is included once and every type that is nested   *)
(* or picked from is complete above its use; and a project is refused only *)
(* if a rule is broken, the nesting is too deep or cyclic, or no order of  *)
(* the files would do (resolve_picks, validate_types, emit_model_includes).*)
(***************************************************************************)
DeclaredBeforeUse ==
    LET at(f) == CHOOSE i \in DOMAIN included : included[i] = f
    IN  /\ phase = "accepted" =>
              /\ WellFormed
              /\ IsInjective(included) /\ ToSet(included) = ModelFiles
              /\ \A t \in DOMAIN types : \A k \in Uses(t) :
                    \/ at(types[k].file) < at(types[t].file)
                    \/ types[k].file = types[t].file /\ k < t
        /\ phase = "refused" => ~WellFormed

=============================================================================
