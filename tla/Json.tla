-------------------------------- MODULE Json --------------------------------
(***************************************************************************)
(* The JSON reader (src/http/json.c): json_parse, a scanner with a stack   *)
(* of frames that fills a flat array of tokens, and the lookups            *)
(* json_object_get and json_path_get over that array.                      *)
(*                                                                         *)
(* The text is a sequence of lexemes, chosen while it is scanned.  A       *)
(* string is its spelling, and Decode is what json_copy_str makes of it    *)
(* for strcmp and strlen, so that two spellings of one key are told apart  *)
(* from two keys.  (Both stop at a NUL: a key that spells one with \u0000  *)
(* is to the reader what comes before it, and a duplicate of the key that  *)
(* is just that.)  "bad" is a lexeme token_string or token_primitive       *)
(* refuse: an open string, a bad escape or UTF-8 sequence, a malformed     *)
(* number.                                                                 *)
(***************************************************************************)
EXTENDS Integers, SequencesExt

CONSTANTS Strings,    \* spellings
          Decode,     \* what each of them means
          Long,       \* the spellings of JSON_MAX_KEY_BYTES or more
          Number,     \* the texts strtol takes for an index, and the index
          MaxDepth,   \* JSON_MAX_DEPTH
          Limits,     \* the limits a text may meet: see limits
          MaxText,    \* lexemes of a text
          MaxPath     \* segments of a path

ASSUME JsonAssumption ==
    /\ Long \subseteq Strings /\ DOMAIN Decode = Strings
    /\ {MaxDepth, MaxText, MaxPath} \subseteq Nat
    /\ \A l \in Limits : l.tokens \in Nat /\ l.members \in Nat

Punctuation == {"{", "}", "[", "]", ",", ":"}
Lexemes == Punctuation \cup Strings \cup {"prim", "bad"}

VARIABLES
    limits, \* tokens: max of json_parse; members: JSON_MAX_OBJECT_KEYS
    text,   \* what was scanned
    toks,   \* the tokens, numbered from 1 (the code's number plus one)
    stack,  \* the frames, the innermost last
    began,  \* a value was begun
    pc

jsonVars == <<limits, text, toks, stack, began, pc>>

States == {"OBJ_KEY_OR_END", "OBJ_KEY", "OBJ_COLON", "OBJ_VALUE", "OBJ_NEXT",
           "ARR_VALUE_OR_END", "ARR_VALUE", "ARR_NEXT"}

JsonTypeOK ==
    /\ limits \in Limits
    /\ text \in Seq(Lexemes)
    /\ toks \in Seq([type : {"OBJ", "ARR", "STR", "PRIM"}, start : 1..MaxText,
                     end : -1..(MaxText + 1), parent : 0..limits.tokens])
    /\ Len(toks) <= limits.tokens
    /\ stack \in Seq([token : 1..limits.tokens, state : States,
                      members : 0..limits.members])
    /\ Len(stack) <= MaxDepth
    /\ began \in BOOLEAN
    /\ pc \in {"scan", "accepted", "refused", "short"}

JsonInit ==
    /\ limits \in Limits
    /\ text = <<>> /\ toks = <<>> /\ stack = <<>> /\ began = FALSE /\ pc = "scan"

-----------------------------------------------------------------------------
Top == stack[Len(stack)]

(* token_alloc.  A string or primitive ends with its lexeme, a container   *)
(* when it is closed.                                                      *)
Room == Len(toks) < limits.tokens

Token(x, parent) ==
    [type   |-> CASE x = "{" -> "OBJ" [] x = "[" -> "ARR"
                  [] x = "prim" -> "PRIM" [] OTHER -> "STR",
     start  |-> Len(text) + 1,
     end    |-> IF x \in {"{", "["} THEN -1 ELSE Len(text) + 2,
     parent |-> parent]

(* scan_value lets x begin a value.                                        *)
ValueFits(x) ==
    /\ x \in Strings \cup {"prim", "{", "["} /\ Room
    /\ x \in {"{", "["} => Len(stack) < MaxDepth

(* scan_value: a token, and a frame for a container; outer are the frames  *)
(* around it.                                                              *)
Value(x, parent, outer) ==
    /\ toks' = Append(toks, Token(x, parent))
    /\ stack' = CASE x = "{" -> Append(outer, [token |-> Len(toks) + 1,
                                   state |-> "OBJ_KEY_OR_END", members |-> 0])
                  [] x = "[" -> Append(outer, [token |-> Len(toks) + 1,
                                   state |-> "ARR_VALUE_OR_END", members |-> 0])
                  [] OTHER -> outer

(* close_container.                                                        *)
CloseContainer ==
    /\ toks' = [toks EXCEPT ![Top.token].end = Len(text) + 2]
    /\ stack' = Front(stack)

(* The frame after a step within it.                                       *)
InState(s) == [stack EXCEPT ![Len(stack)].state = s]

(* The direct children of token o, and those at even places: the keys.     *)
Children(o) == SelectSeq([i \in DOMAIN toks |-> i], LAMBDA i : toks[i].parent = o)

KeysOf(o) ==
    {Children(o)[j] : j \in {j \in DOMAIN Children(o) : j % 2 = 1}}

TextOf(i, t) == t[toks[i].start]

(* duplicate_key.                                                          *)
DuplicateKey(x) ==
    \E i \in KeysOf(Top.token) : Decode[TextOf(i, text)] = Decode[x]

(* Variant: an object is given one key more than its limit.                *)
KeyFitsOneMore(x) ==
    /\ x \in Strings /\ Room
    /\ Top.members <= limits.members /\ x \notin Long /\ ~DuplicateKey(x)

(* scan_object_key lets x be a key.                                        *)
KeyFits(x) ==
    /\ x \in Strings /\ Room
    /\ Top.members < limits.members /\ x \notin Long /\ ~DuplicateKey(x)

(* Where the innermost frame, or the lack of one, lets x come next.        *)
Fits(x) ==
    IF stack = <<>> THEN ~began /\ ValueFits(x)
    ELSE CASE Top.state = "OBJ_KEY_OR_END"   -> x = "}" \/ KeyFits(x)
           [] Top.state = "OBJ_KEY"          -> KeyFits(x)
           [] Top.state = "OBJ_COLON"        -> x = ":"
           [] Top.state = "OBJ_NEXT"         -> x \in {",", "}"}
           [] Top.state = "ARR_VALUE_OR_END" -> x = "]" \/ ValueFits(x)
           [] Top.state = "ARR_NEXT"         -> x \in {",", "]"}
           [] OTHER                          -> ValueFits(x)

(* json_parse at depth 0.                                                  *)
RootValue(x) ==
    /\ stack = <<>>
    /\ began' = TRUE
    /\ Value(x, 0, <<>>)

(* scan_object_key.                                                        *)
ObjectKey(x) ==
    /\ stack # <<>> /\ Top.state \in {"OBJ_KEY_OR_END", "OBJ_KEY"}
    /\ IF x = "}" THEN CloseContainer
       ELSE /\ toks' = Append(toks, Token(x, Top.token))
            /\ stack' = [InState("OBJ_COLON") EXCEPT ![Len(stack)].members = @ + 1]
    /\ UNCHANGED began

ObjectColon ==
    /\ stack # <<>> /\ Top.state = "OBJ_COLON"
    /\ stack' = InState("OBJ_VALUE")
    /\ UNCHANGED <<toks, began>>

ObjectValue(x) ==
    /\ stack # <<>> /\ Top.state = "OBJ_VALUE"
    /\ Value(x, Top.token, InState("OBJ_NEXT"))
    /\ UNCHANGED began

(* scan_array_element.                                                     *)
ArrayElement(x) ==
    /\ stack # <<>> /\ Top.state \in {"ARR_VALUE_OR_END", "ARR_VALUE"}
    /\ IF x = "]" THEN CloseContainer
       ELSE Value(x, Top.token, InState("ARR_NEXT"))
    /\ UNCHANGED began

(* scan_separator.                                                         *)
Separator(x) ==
    /\ stack # <<>> /\ Top.state \in {"OBJ_NEXT", "ARR_NEXT"}
    /\ IF x = ","
       THEN /\ stack' = InState(IF Top.state = "OBJ_NEXT" THEN "OBJ_KEY" ELSE "ARR_VALUE")
            /\ UNCHANGED toks
       ELSE CloseContainer
    /\ UNCHANGED began

(* One lexeme.                                                             *)
Scan(x) ==
    /\ pc = "scan" /\ Len(text) < MaxText
    /\ Fits(x)
    /\ \/ RootValue(x) \/ ObjectKey(x) \/ ObjectColon \/ ObjectValue(x)
       \/ ArrayElement(x) \/ Separator(x)
    /\ text' = Append(text, x)
    /\ UNCHANGED <<limits, pc>>

Refuse(x) ==
    /\ pc = "scan" /\ Len(text) < MaxText
    /\ ~Fits(x)
    /\ pc' = "refused" /\ text' = Append(text, x)
    /\ UNCHANGED <<limits, toks, stack, began>>

(* The text ends: it is JSON if one value was read and closed.             *)
EndOfText ==
    /\ pc = "scan"
    /\ pc' = IF began /\ stack = <<>> THEN "accepted" ELSE "short"
    /\ UNCHANGED <<limits, text, toks, stack, began>>

JsonNext == EndOfText \/ \E x \in Lexemes : Scan(x) \/ Refuse(x)

JsonSpec == JsonInit /\ [][JsonNext]_jsonVars

-----------------------------------------------------------------------------
(* Lookups, over the tokens of an accepted text; 0 is "not found".         *)

(* The children json_object_get and json_path_get meet before the end of   *)
(* the container.                                                          *)
Within(o) == SelectSeq(Children(o), LAMBDA i : i > o /\ toks[i].start < toks[o].end)

(* Variant: a value that spells the key counts as the key.                 *)
ObjectGetAny(o, key) ==
    LET match == SelectSeq(Within(o), LAMBDA i :
                     toks[i].type = "STR" /\ Decode[TextOf(i, text)] = key)
    IN  IF match = <<>> \/ match[1] + 1 > Len(toks) THEN 0 ELSE match[1] + 1

(* json_object_get.                                                        *)
ObjectGet(o, key) ==
    LET match == SelectSeq(Within(o), LAMBDA i :
                     /\ i \in KeysOf(o) /\ toks[i].type = "STR"
                     /\ TextOf(i, text) \notin Long
                     /\ Decode[TextOf(i, text)] = key)
    IN  IF match = <<>> \/ match[1] + 1 > Len(toks) THEN 0 ELSE match[1] + 1

(* One round of json_path_get.                                             *)
PathStep(o, segment) ==
    CASE o = 0 -> 0
      [] o > 0 /\ toks[o].type = "OBJ" -> ObjectGet(o, segment)
      [] o > 0 /\ toks[o].type = "ARR" ->
             IF segment \in DOMAIN Number /\ Number[segment] < Len(Within(o))
             THEN Within(o)[Number[segment] + 1] ELSE 0
      [] OTHER -> 0

PathGet(path) == FoldLeft(LAMBDA o, s : PathStep(o, s), 1, path)

-----------------------------------------------------------------------------
(* The grammar of JSON, with the limits: the texts of n lexemes that are   *)
(* a value of at most d levels and m members in each object, the members   *)
(* of an object whose keys are not in taken, and the elements of an array. *)
RECURSIVE Values(_, _, _), Members(_, _, _, _), Elements(_, _, _)

Values(n, d, m) ==
    IF n = 1 THEN {<<x>> : x \in Strings \cup {"prim"}}
    ELSE IF n < 1 \/ d = 0 THEN {}
    ELSE {<<"{">> \o t \o <<"}">> : t \in Members(n - 2, d - 1, m, {})}
         \cup {<<"[">> \o t \o <<"]">> : t \in Elements(n - 2, d - 1, m)}

Members(n, d, m, taken) ==
    IF n = 0 THEN {<<>>}
    ELSE IF n < 3 \/ Cardinality(taken) = m THEN {}
    ELSE UNION {
        LET more == IF k = n - 2 THEN {<<>>}
                    ELSE {<<",">> \o t : t \in
                              IF k + 3 = n THEN {}
                              ELSE Members(n - k - 3, d, m, taken \cup {Decode[key]})}
        IN  {<<key, ":">> \o v \o t : v \in Values(k, d, m), t \in more}
        : key \in {s \in Strings \ Long : Decode[s] \notin taken}, k \in 1..(n - 2)}

Elements(n, d, m) ==
    IF n = 0 THEN {<<>>}
    ELSE UNION {
        LET more == IF k = n THEN {<<>>}
                    ELSE {<<",">> \o t : t \in
                              IF k + 1 = n THEN {} ELSE Elements(n - k - 1, d, m)}
        IN  {v \o t : v \in Values(k, d, m), t \in more}
        : k \in 1..n}

CountTokens(t) == Len(SelectSeq(t, LAMBDA x : x \notin Punctuation \ {"{", "["}))

Language ==
    [l \in Limits |->
        {t \in UNION {Values(n, MaxDepth, l.members) : n \in 1..MaxText} :
            CountTokens(t) <= l.tokens}]

Viable ==
    [l \in Limits |-> UNION {{SubSeq(t, 1, n) : n \in 1..Len(t)} : t \in Language[l]}]

(* json_parse accepts the JSON texts within the limits, whole, and no      *)
(* other, and it refuses no lexeme with which such a text could go on.     *)
(* (It may go on for a while with a text that has become too long.)        *)
ParsesExactly ==
    /\ pc = "accepted" => text \in Language[limits]
    /\ pc = "short" => text \notin Language[limits]
    /\ pc = "refused" => text \notin Viable[limits]

(* Where a text says that a value is: nesting counted on the text itself.  *)
Opens(p, q) == Len(SelectSeq(SubSeq(text, p, q), LAMBDA x : x \in {"{", "["}))
Shuts(p, q) == Len(SelectSeq(SubSeq(text, p, q), LAMBDA x : x \in {"}", "]"}))

(* The lexeme at q is directly in the container that begins at p.          *)
Directly(p, q) ==
    /\ q > p /\ Opens(p, q - 1) - Shuts(p, q - 1) = 1
    /\ \A r \in p..(q - 1) : Opens(p, r) > Shuts(p, r)

(* The places segment leads to from the value at p.                        *)
Leads(p, segment) ==
    IF text[p] = "{"
    THEN {q + 2 : q \in {q \in (p + 1)..(Len(text) - 2) :
             /\ Directly(p, q) /\ text[q] \in Strings /\ text[q + 1] = ":"
             /\ Decode[text[q]] = segment}}
    ELSE IF text[p] = "[" /\ segment \in DOMAIN Number
    THEN {q \in (p + 1)..Len(text) :
             /\ Directly(p, q) /\ text[q] \notin {",", "]"}
             /\ text[q - 1] \in {"[", ","}
             /\ Number[segment] = Cardinality({r \in (p + 1)..q :
                                    Directly(p, r) /\ text[r] = ","})}
    ELSE {}

Segments == {Decode[s] : s \in Strings} \cup DOMAIN Number

(* A path finds the value the text has under it, never one of a nested or  *)
(* later container and never a value that looks like a key, or nothing if  *)
(* the text has none.                                                      *)
LookupExact ==
    pc = "accepted" =>
        \A path \in SeqOf(Segments, MaxPath) :
            LET meant == FoldLeft(LAMBDA ps, s : UNION {Leads(p, s) : p \in ps},
                                  {1}, path)
                found == PathGet(path)
            IN  IF found = 0 THEN meant = {} ELSE meant = {toks[found].start}
=============================================================================
