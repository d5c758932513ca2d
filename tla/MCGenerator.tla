---------------------------- MODULE MCGenerator -----------------------------
(***************************************************************************)
(* The two halves of the generator's work, the reading of a file and the   *)
(* ordering of the types of all files.  A behaviour is one of one half,    *)
(* the other at rest.                                                      *)
(***************************************************************************)
EXTENDS Annotations, Models

VARIABLE half

GeneratorInit ==
    /\ half \in {"reading", "ordering"}
    /\ AnnotationsInit /\ (half = "ordering" => file = CHOOSE s \in Sources : TRUE)
    /\ ModelsInit

ReadingStep ==
    half = "reading" /\ AnnotationsNext /\ UNCHANGED <<half, modelVars>>

OrderingStep ==
    half = "ordering" /\ ModelsNext /\ UNCHANGED <<half, annotationVars>>

GeneratorNext == ReadingStep \/ OrderingStep

GeneratorSpec ==
    GeneratorInit /\ [][GeneratorNext]_<<half, annotationVars, modelVars>>

-----------------------------------------------------------------------------
(* Lines of the files.                                                     *)
Plain(kinds) == [kind : kinds]

Named(kinds, names) == [kind : kinds, name : names]

Role(role) == [kind |-> "role", role |-> role]

Rule(rule) == [kind |-> "rule", rule |-> rule]

Flags(flags) == [kind |-> "flags", flags |-> flags]

Field(name, type, flags) ==
    [kind |-> "field", name |-> name, type |-> type, flags |-> flags]

Repeated(lines, n) == [i \in 1..n |-> lines]

Signatures == Named({"signature"}, {"f", "g"})

\* Routes, services and their annotations, without bodies.
Controller ==
    LET lines == Plain({"authenticated", "public", "produces", "route",
                        "transactional"})
                 \union {Role("admin"), Role("user")} \union Signatures
    IN  Repeated(lines, 5) \o <<Signatures \union Plain({"route", "blank"}),
                               Signatures>>

Tasks ==
    LET lines == Plain({"authenticated", "transactional", "repeat", "on_start",
                        "route", "tail", "malformed", "blank"})
                 \union Named({"store"}, {"T"}) \union Signatures
                 \union Named({"prototype", "oneline", "head"}, {"f"})
    IN  Repeated(lines, 4) \o Repeated(Signatures \union Plain({"tail"}), 2)

\* Functions with bodies.
Bodies ==
    LET lines == Plain({"open", "close", "else", "tx", "txopen", "return",
                        "statement"})
    IN  <<Signatures>> \o Repeated(lines, 5) \o <<Plain({"return", "close"})>>

\* Types and their fields.
ModelFile ==
    LET lines == Plain({"references", "typeclose"})
                 \union Named({"pick"}, {"x"})
                 \union {Rule("min"), Rule("email")}
                 \union {Flags({"id"}), Flags({"unique"})}
                 \union {Field("x", "int", {}), Field("y", "int", {"id"}),
                         Field("y", "str", {})}
    IN  <<Named({"table", "json"}, {"T"}), Plain({"open", "blank", "close"})>>
        \o Repeated(lines, 4) \o <<Plain({"typeclose", "close"})>>
        \o <<Signatures \union Named({"json"}, {"T", "U"})>>

MCSources == {Controller, Tasks, Bodies, ModelFile}

-----------------------------------------------------------------------------
(* What a type may say: a DTO with a nested type, a pick or both; a table  *)
(* with or without an id and a foreign key; a table that nests.            *)
Say(json, nested, pick, id, ref) ==
    [json |-> json, nested |-> nested, pick |-> pick, id |-> id, ref |-> ref]

MCDeclarations ==
    {Say(TRUE, n, NoType, FALSE, NoType) : n \in {{}} \union {{k} : k \in Names}}
    \union {Say(TRUE, {}, p, FALSE, NoType) : p \in {1, 3}}
    \union {Say(TRUE, {2}, 3, FALSE, NoType)}
    \union {Say(FALSE, {}, NoType, TRUE, NoType), Say(FALSE, {}, NoType, FALSE, 2),
            Say(FALSE, {1}, NoType, FALSE, NoType),
            Say(TRUE, {}, NoType, TRUE, NoType)}

=============================================================================
