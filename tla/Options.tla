------------------------------- MODULE Options -------------------------------
(* Program options (sc_options.c): declaring options and suboptions, parsing  *)
(* a command line, saving to and loading from a file in .ini format through   *)
(* iniparser, and the reference counted strings shared by an options object   *)
(* and the object its suboptions were copied from.                            *)
(*                                                                            *)
(* An option is [type, char, name, var].  A name is the sequence of its parts *)
(* between colons, <<>> for NULL; a char is "" for none.  Values, texts and   *)
(* arguments are words.  A saved file is a sequence of words, "\n" among      *)
(* them.  What getopt_long recognises is an input: a sequence of options with *)
(* their arguments.  A JSON file is loaded by a call, but not by an option of *)
(* type JSONFILE in the middle of a command line, as an .ini file is.         *)
EXTENDS Integers, Sequences, FiniteSets, SequencesExt, TLC

CONSTANTS Tables,    \* the option tables considered: sequences of options
          Words,     \* values a string option may be given
          Args,      \* command line arguments that are no options
          Huge,      \* numbers given that are out of range
          Edited,    \* .ini files written by hand
          MaxEvents, \* bound on the options given in one command line
          MaxCalls   \* bound on the calls of a session

VARIABLES items,     \* options of the main object, suboptions last
          sub,       \* options of the object the suboptions were copied from
          live,      \* objects that exist
          value,     \* the user variables
          string,    \* string_value of each STRING or KEYVALUE option, by var
          rc,        \* reference count of each string, by var
          errno,     \* errno is ERANGE
          args,      \* [first, argv]: first_arg and what argv holds from there
          file,      \* contents of the file, or NoFile
          saved,     \* values and arguments at the time of saving
          last,      \* the last call and how it went
          calls

vars == <<items, sub, live, value, string, rc, errno, args, file, saved, last, calls>>

NoFile == <<"nofile">>
NONE == "NONE"
Strings(its) == {it.var : it \in {x \in Range(its) : x.type = "STRING"}}
Savable(it) == it.type \notin {"INIFILE", "JSONFILE", "CALLBACK"}

(* Words: numbers read by strtol, strtoll and strtod.  "int+" is beyond       *)
(* INT_MAX, "llong+" beyond LLONG_MAX, "d17" a double that needs 17 digits.   *)
(* What is no number reads as zero.                                           *)
Numbers == {"0", "1", "2", "10", "-1", "int+", "llong+", "d16", "d17"}
Number(w) == IF w \in Numbers THEN w ELSE "0"
FirstChar(w) == CASE w \in {"1", "10"} -> "1" [] w = "true" -> "t" [] w = "0" -> "0"
                  [] w = "false" -> "f" [] OTHER -> "x"
(* Faulty variant: sections and keys are kept as they are.                    *)
KeepCase(w) == w

Lower(w) == CASE w = "N" -> "n" [] w = "-N" -> "-n" [] w = "Options" -> "options"
              [] w = "Arguments" -> "arguments" [] OTHER -> w
KeyValues == [k1 |-> "1", k2 |-> "2"]

-----------------------------------------------------------------------------
(* The state changed by one option: [value, string, errno, ok].               *)
Assign(st, it, v) == [st EXCEPT !.value[it.var] = v]
Refuse(st) == [st EXCEPT !.ok = FALSE]

(* sc_options_string_set replaces the string and the user's pointer to it.    *)
sc_options_string_set(st, it, w) == [st EXCEPT !.value[it.var] = w, !.string[it.var] = w]

(* sc_options_string_get follows a change the user made to the variable.      *)
sc_options_string_get(it) == value[it.var]

(* sc_keyvalue_get_int_check: the old value is returned for an unknown key.   *)
KeyValue(st, it, w) ==
  IF w \in DOMAIN KeyValues
  THEN [st EXCEPT !.value[it.var] = KeyValues[w], !.string[it.var] = w] ELSE Refuse(st)

(* strtol and strtoll set errno to ERANGE and nobody ever clears it.          *)
Converted(st, it, w) == [st EXCEPT !.errno = @ \/ (it.type # "DOUBLE" /\ w = "llong+")]

-----------------------------------------------------------------------------
(* sc_options_save.  A section heading is written when the prefix changes; an *)
(* option without a name stays in the section of the one before it.  A string *)
(* that is NULL ends its line without a line break.                           *)
Text(it) ==
  CASE it.type = "SWITCH" -> <<CASE value[it.var] = "0" -> "false" [] value[it.var] = "1" -> "true"
                                 [] OTHER -> value[it.var], "\n">>
    [] it.type = "BOOL" -> <<IF value[it.var] = "0" THEN "false" ELSE "true", "\n">>
    [] it.type = "DOUBLE" -> <<IF value[it.var] = "d17" THEN "d16" ELSE value[it.var], "\n">>
    [] it.type = "STRING" -> IF sc_options_string_get(it) = NONE THEN <<>>
                             ELSE <<sc_options_string_get(it), "\n">>
    [] it.type = "KEYVALUE" -> <<string[it.var], "\n">>
    [] OTHER -> <<value[it.var], "\n">>

SaveOne(st, it) ==
  LET prefix == CASE it.name = <<>> -> st.this [] Len(it.name) = 1 -> <<"Options">> [] OTHER -> Front(it.name)
      heading == IF prefix # <<>> /\ st.last # prefix THEN <<"[">> \o prefix \o <<"]", "\n">> ELSE <<>>
      key == IF it.name = <<>> THEN it.char ELSE Last(it.name)
  IN IF ~Savable(it) THEN st
     ELSE [this |-> prefix, last |-> IF heading = <<>> THEN st.last ELSE prefix,
           out |-> st.out \o heading \o <<key, "=">> \o Text(it)]

Digit == <<"0", "1", "2">>
Written(its, argv) ==
  FoldLeft(SaveOne, [this |-> <<>>, last |-> <<>>, out |-> <<"#", "\n">>], its).out
  \o <<"[", "Arguments", "]", "\n", "count", "=", Digit[Len(argv) + 1], "\n">>
  \o FlattenSeq([i \in 1 .. Len(argv) |-> <<Digit[i], "=", argv[i], "\n">>])

-----------------------------------------------------------------------------
(* iniparser_load: line by line into a dictionary of [section, key] -> value. *)
(* Sections and keys are lowered; a comment character ends a value; a line    *)
(* that is none of the known forms is a syntax error.  Setting an entry       *)
(* overwrites the error count.                                                *)
iniparser_line(line) ==
  LET eq == {i \in 1 .. Len(line) : line[i] = "="}
      first == CHOOSE i \in eq : \A j \in eq : i <= j
      text == SubSeq(line, first + 1, Len(line))
      comment == {i \in 1 .. Len(text) : text[i] \in {"#", ";"}}
  IN CASE line = <<>> -> [kind |-> "empty"]
       [] line[1] \in {"#", ";"} -> [kind |-> "comment"]
       [] line[1] = "[" /\ Last(line) = "]" ->
            [kind |-> "section", section |-> [i \in 1 .. Len(line) - 2 |-> Lower(line[i + 1])]]
       [] eq # {} /\ first = 2 ->
            [kind |-> "value", key |-> Lower(line[1]),
             value |-> IF comment = {} THEN text
                       ELSE SubSeq(text, 1, (CHOOSE i \in comment : \A j \in comment : i <= j) - 1)]
       [] OTHER -> [kind |-> "error"]

LoadLine(st, line) ==
  LET l == iniparser_line(line) IN
  CASE l.kind \in {"empty", "comment"} -> st
    [] l.kind = "section" -> [st EXCEPT !.section = l.section, !.errs = 0, !.dict = (l.section :> <<>>) @@ @]
    [] l.kind = "value" -> [st EXCEPT !.dict = (Append(st.section, l.key) :> l.value) @@ @, !.errs = 0]
    [] OTHER -> [st EXCEPT !.errs = @ + 1]

Lines(f) ==
  LET ends == {i \in DOMAIN f : f[i] = "\n"}
      n == Cardinality(ends)
      stop(k) == CASE k = 0 -> 0 [] k > n -> Len(f) + 1
                   [] OTHER -> CHOOSE i \in ends : Cardinality({j \in ends : j <= i}) = k
  IN [k \in 1 .. n + 1 |-> SubSeq(f, stop(k - 1) + 1, stop(k) - 1)]

(* NULL for no file, for a last line without a line break ("too long"), and   *)
(* for an error count that is not zero at the end.                            *)
iniparser_load(f) ==
  LET l == FoldLeft(LoadLine, [section |-> <<"">>, dict |-> <<>>, errs |-> 0], Lines(f))
  IN [ok |-> f # NoFile /\ Last(Lines(f)) = <<>> /\ l.errs = 0, dict |-> l.dict]

(* The text of an entry, as one word if it is one.                            *)
WordOf(s) == IF s = <<>> THEN "" ELSE IF Len(s) = 1 THEN s[1] ELSE "joined"

-----------------------------------------------------------------------------
(* sc_options_load_ini, one option.  The value is looked up under the long    *)
(* name and the character; both together are an error.                        *)
LoadOne(dict, st, it) ==
  LET short == <<"options", Lower(it.char)>>
      long == IF Len(it.name) = 1 THEN <<"options", Lower(it.name[1])>>
              ELSE [i \in 1 .. Len(it.name) |-> Lower(it.name[i])]
      found_short == it.char # "" /\ short \in DOMAIN dict
      found_long == it.name # <<>> /\ long \in DOMAIN dict
      w == WordOf(dict[IF found_long THEN long ELSE short])
      c == Converted(st, it, w)
  IN IF ~st.ok \/ ~Savable(it) \/ ~(found_short \/ found_long) THEN st
     ELSE IF found_short /\ found_long THEN Refuse(st)
     ELSE CASE it.type \in {"SWITCH", "BOOL"} ->
                 IF FirstChar(w) \in {"1", "t"} THEN Assign(st, it, "1")
                 ELSE IF FirstChar(w) \in {"0", "f"} THEN Assign(st, it, "0")
                 ELSE IF it.type = "SWITCH" /\ Number(w) \notin {"0", "-1", "int+", "llong+"} /\ ~c.errno
                      THEN Assign(c, it, Number(w)) ELSE Refuse(IF it.type = "SWITCH" THEN c ELSE st)
            [] it.type \in {"INT", "SIZE_T", "DOUBLE"} ->
                 LET v == CASE it.type = "INT" /\ Number(w) \in {"int+", "llong+"} -> "int_max"
                            [] it.type = "SIZE_T" /\ Number(w) = "-1" -> "0"
                            [] it.type = "SIZE_T" /\ Number(w) = "llong+" -> "llong_max"
                            [] OTHER -> Number(w)
                 IN IF v # Number(w) \/ c.errno THEN Refuse(Assign(c, it, v)) ELSE Assign(c, it, v)
            [] it.type = "STRING" -> sc_options_string_set(st, it, w)
            [] OTHER -> KeyValue(st, it, w)

LoadAll(st, its, f) ==
  LET l == iniparser_load(f) IN
  IF ~l.ok THEN Refuse(st)
  ELSE FoldLeft(LAMBDA s, it : LoadOne(l.dict, s, it), st, its)

-----------------------------------------------------------------------------
(* sc_options_load_json.  An object maps keys, which may contain colons, to   *)
(* [leaf] or [object].  The lookup tries longer and longer beginnings of the  *)
(* name; inside an object found it looks for the rest, and what it finds      *)
(* there comes first.  A beginning that is no object ends the search.         *)
RECURSIVE sc_options_json_lookup(_, _, _)
sc_options_json_lookup(object, key, n) ==
  LET entry == object[SubSeq(key, 1, n)]
      found == IF "object" \in DOMAIN entry
               THEN sc_options_json_lookup(entry.object, SubSeq(key, n + 1, Len(key)), 1) ELSE NONE
      longer == sc_options_json_lookup(object, key, n + 1)
  IN CASE SubSeq(key, 1, n) \notin DOMAIN object -> IF n = Len(key) THEN NONE ELSE longer
       [] n = Len(key) -> IF "leaf" \in DOMAIN entry THEN entry.leaf ELSE "object"
       [] "leaf" \in DOMAIN entry -> NONE
       [] OTHER -> IF found # NONE THEN found ELSE longer

(* Words stand for JSON values: true, false, null, numbers and strings.       *)
JsonOne(jopt, st, it) ==
  LET short == IF it.char # "" /\ <<it.char>> \in DOMAIN jopt
               THEN sc_options_json_lookup(jopt, <<it.char>>, 1) ELSE NONE
      long == IF it.name # <<>> THEN sc_options_json_lookup(jopt, it.name, 1) ELSE NONE
      w == IF long # NONE THEN long ELSE short
      integer == w \in Numbers \ {"d16", "d17", "llong+"}
  IN IF ~st.ok \/ ~Savable(it) \/ w = NONE THEN st
     ELSE CASE it.type \in {"SWITCH", "BOOL"} /\ w \in {"true", "false"} ->
                 Assign(st, it, IF w = "true" THEN "1" ELSE "0")
            [] it.type = "SWITCH" /\ integer /\ w \notin {"-1", "int+"} -> Assign(st, it, w)
            [] it.type = "INT" /\ integer /\ w # "int+" -> Assign(st, it, w)
            [] it.type = "SIZE_T" /\ integer /\ w # "-1" -> Assign(st, it, w)
            [] it.type = "DOUBLE" /\ w \in Numbers -> Assign(st, it, w)
            [] it.type = "STRING" /\ w \notin Numbers \cup {"true", "false", "object"} ->
                 sc_options_string_set(st, it, IF w = "null" THEN NONE ELSE w)
            [] it.type = "KEYVALUE" -> KeyValue(st, it, w)
            [] OTHER -> Refuse(st)

Incremented(v) == CASE v = "0" -> "1" [] v = "1" -> "2" [] OTHER -> "10"

(* sc_options_parse, one option and its argument.                             *)
ParseOne(st, it, w) ==
  LET c == Converted(st, it, w) IN
  CASE it.type = "SWITCH" -> Assign(st, it, Incremented(st.value[it.var]))
    [] it.type = "BOOL" -> IF w = NONE \/ FirstChar(w) \in {"1", "t"} THEN Assign(st, it, "1")
                           ELSE IF FirstChar(w) \in {"0", "f"} THEN Assign(st, it, "0") ELSE Refuse(st)
    [] it.type = "INT" -> IF Number(w) \in {"int+", "llong+"} \/ c.errno THEN Refuse(c)
                          ELSE Assign(c, it, Number(w))
    [] it.type = "SIZE_T" -> IF Number(w) = "-1" \/ c.errno THEN Refuse(c) ELSE Assign(c, it, Number(w))
    [] it.type = "DOUBLE" -> IF c.errno THEN Refuse(c) ELSE Assign(c, it, Number(w))
    [] it.type = "STRING" -> sc_options_string_set(st, it, w)
    [] it.type = "CALLBACK" -> IF w = "bad" THEN Refuse(st) ELSE st
    [] it.type = "INIFILE" -> LoadAll(st, items, file)
    [] OTHER -> KeyValue(st, it, w)

(* The getopt loop; an option getopt does not know ends it with an error.     *)
ParseEvent(st, e) == IF ~st.ok THEN st ELSE IF e.unknown THEN Refuse(st) ELSE ParseOne(st, e.it, e.arg)

State == [value |-> value, string |-> string, errno |-> errno, ok |-> TRUE]
Store(st) == value' = st.value /\ string' = st.string /\ errno' = st.errno

-----------------------------------------------------------------------------
Default(it) == IF it.type = "SWITCH" THEN "0" ELSE IF it.type = "KEYVALUE" THEN KeyValues[it.init] ELSE it.init
Shared(it) == [it EXCEPT !.char = "", !.name = <<"p", IF it.name = <<>> THEN it.char ELSE it.name[1]>>]

(* sc_options_new, sc_options_add_*: a table is declared, and another one     *)
(* whose options are copied as suboptions with the prefix p; the copies share *)
(* the variables, and a string is shared by reference.                        *)
Init == /\ \E t \in Tables :
             /\ sub = t.sub /\ items = t.main \o [i \in 1 .. Len(t.sub) |-> Shared(t.sub[i])]
             /\ LET all == t.main \o t.sub
                    of(v) == CHOOSE i \in 1 .. Len(all) : all[i].var = v
                    vs == {all[i].var : i \in 1 .. Len(all)}
                IN /\ value = [v \in vs |-> Default(all[of(v)])]
                   /\ string = [v \in vs |-> all[of(v)].init]
                   /\ rc = [v \in vs |-> IF v \in Strings(t.sub) THEN 2
                                         ELSE IF v \in Strings(t.main) THEN 1 ELSE 0]
        /\ live = {"main", "sub"} /\ errno = FALSE /\ args = [first |-> -1, argv |-> <<>>]
        /\ file = NoFile /\ saved = <<>> /\ last = [call |-> "none", ok |-> TRUE, valid |-> TRUE] /\ calls = 0

Call(name, ok, valid) == /\ "main" \in live /\ calls < MaxCalls /\ calls' = calls + 1
                         /\ last' = [call |-> name, ok |-> ok, valid |-> valid]

(* Arguments an option may be given, and which of them are in order.          *)
Inputs(it) ==
  CASE it.type = "SWITCH" -> {NONE} [] it.type = "BOOL" -> {NONE, "0", "bad"}
    [] it.type = "INT" -> {"1", "int+"} [] it.type = "SIZE_T" -> {"1", "-1"} \cup Huge
    [] it.type = "DOUBLE" -> {"d16", "d17"} [] it.type = "STRING" -> Words
    [] it.type = "CALLBACK" -> {"1", "bad"} [] it.type = "KEYVALUE" -> {"k2", "bad"} [] OTHER -> {"file"}
Events == {[unknown |-> TRUE, valid |-> FALSE]}
          \cup UNION {{[unknown |-> FALSE, it |-> it, arg |-> w, valid |-> w \notin {"int+", "-1", "llong+", "bad", "file"}] :
                         w \in Inputs(it)} : it \in Range(items)}

(* sc_options_parse: the arguments are set even after an error, with          *)
(* first_arg -1.                                                              *)
sc_options_parse ==
  \E e \in UNION {[1 .. n -> Events] : n \in 0 .. MaxEvents}, a \in Args :
    LET st == FoldLeft(ParseEvent, State, e)
    IN /\ Call("parse", st.ok, \A i \in DOMAIN e : e[i].valid)
       /\ Store(st) /\ args' = [first |-> IF st.ok THEN 1 ELSE -1, argv |-> a]
       /\ UNCHANGED <<items, sub, live, rc, file, saved>>

(* The user's variable of a string option may be changed directly.            *)
Modify == \E v \in Strings(items), w \in Words :
            /\ rc[v] > 0 /\ Call("modify", TRUE, TRUE) /\ value' = [value EXCEPT ![v] = w]
            /\ UNCHANGED <<items, sub, live, string, rc, errno, args, file, saved>>

(* sc_options_save is called after parsing; a write error leaves a part of    *)
(* the file.  Writing a string follows a change the user made to it.          *)
Synced(n) == LET done == Strings(SubSeq(items, 1, n))
             IN [v \in DOMAIN string |-> IF v \in done THEN value[v] ELSE string[v]]
sc_options_save ==
  /\ args.first >= 0
  /\ LET out == Written(items, args.argv) IN
     \/ /\ file' = out /\ saved' = [value |-> value, argv |-> args.argv] /\ Call("save", TRUE, TRUE)
        /\ string' = Synced(Len(items))
     \/ \E n \in {0, Len(out) \div 2, Len(out) - 1}, k \in {0, Len(items)} :
          /\ file' = SubSeq(out, 1, n) /\ saved' = <<>> /\ Call("save", FALSE, FALSE)
          /\ string' = Synced(k)
  /\ UNCHANGED <<items, sub, live, value, rc, errno, args>>

Edit == \E f \in Edited : /\ file' = f /\ saved' = <<>> /\ Call("edit", TRUE, TRUE)
                          /\ UNCHANGED <<items, sub, live, value, string, rc, errno, args>>

(* sc_options_load.                                                           *)
sc_options_load_ini ==
  LET st == LoadAll(State, items, file) IN
  /\ Call("load", st.ok, TRUE)
  /\ Store(st) /\ UNCHANGED <<items, sub, live, rc, args, file, saved>>

(* A JSON file holding given values, with the suboptions in an object of      *)
(* their own or under their full names.                                       *)
JsonKey(it) == IF it.name = <<>> THEN <<it.char>> ELSE it.name
JsonFile(given, nested) ==
  LET its == {it \in Range(items) : it.var \in DOMAIN given}
      inner == {it \in its : nested /\ Len(it.name) = 2}
      with(v) == [leaf |-> given[v]]
      at(k, S) == with((CHOOSE it \in S : JsonKey(it) = k).var)
  IN [k \in {JsonKey(it) : it \in its \ inner} |-> at(k, its \ inner)] @@
     (<<"p">> :> [object |-> [k \in {Tail(it.name) : it \in inner} |-> at(<<"p">> \o k, inner)]])

JsonValue(it, k) == CASE it.type = "BOOL" -> <<"true", "false">>[k] [] it.type = "SWITCH" -> <<"true", "10">>[k]
                      [] it.type = "STRING" -> <<"x", "null">>[k]
                      [] it.type = "KEYVALUE" -> <<"k2", "bad">>[k] [] OTHER -> <<"1", "-1">>[k]

sc_options_load_json ==
  \E k \in 1 .. 2, nested \in BOOLEAN :
    LET its == {it \in Range(items) : Savable(it)}
        given == [v \in {it.var : it \in its} |-> JsonValue(CHOOSE it \in its : it.var = v, k)]
        jopt == JsonFile(given, nested)
        st == FoldLeft(LAMBDA s, it : JsonOne(jopt, s, it), State, items)
    IN /\ Call("load_json", st.ok, k = 1)
       /\ Store(st) /\ UNCHANGED <<items, sub, live, rc, args, file, saved>>

(* sc_options_load_args replaces the arguments once the count is known.       *)
sc_options_load_args ==
  LET l == iniparser_load(file)
      entry(k) == IF <<"arguments", k>> \in DOMAIN l.dict THEN WordOf(l.dict[<<"arguments", k>>]) ELSE NONE
      number == Number(entry("count"))
      given == l.ok /\ entry("count") # NONE /\ number \in Range(Digit) /\ ~errno
      count == (CHOOSE i \in 1 .. 3 : number = Digit[i]) - 1
  IN /\ Call("load_args", given /\ \A i \in 1 .. count : entry(Digit[i]) # NONE, TRUE)
     /\ args' = IF ~given THEN args
                ELSE [first |-> 0, argv |-> [i \in 1 .. count |->
                        IF \A j \in 1 .. i : entry(Digit[j]) # NONE THEN entry(Digit[i]) ELSE NONE]]
     /\ UNCHANGED <<items, sub, live, value, string, rc, errno, file, saved>>

(* Faulty variant: strings are freed although another object refers to them.  *)
DestroyFrees(o) ==
  LET its == IF o = "main" THEN items ELSE sub
      dead == Strings(its)
  IN /\ o \in live /\ live' = live \ {o}
     /\ rc' = [v \in DOMAIN rc |-> IF v \in dead THEN rc[v] - 1 ELSE rc[v]]
     /\ value' = [v \in DOMAIN value |-> IF v \in dead THEN "destroyed" ELSE value[v]]
     /\ string' = [v \in DOMAIN string |-> IF v \in dead THEN "freed" ELSE string[v]]
     /\ last' = [call |-> "destroy", ok |-> TRUE, valid |-> TRUE]
     /\ UNCHANGED <<items, sub, errno, args, file, saved, calls>>

(* sc_options_destroy: every string option drops its reference; the last one  *)
(* frees the string and redirects the user's pointer to a static text.        *)
sc_options_destroy(o) ==
  LET its == IF o = "main" THEN items ELSE sub
      left == [v \in DOMAIN rc |-> IF v \in Strings(its) THEN rc[v] - 1 ELSE rc[v]]
      dead == {v \in Strings(its) : left[v] = 0}
  IN /\ o \in live /\ live' = live \ {o} /\ rc' = left
     /\ value' = [v \in DOMAIN value |-> IF v \in dead THEN "destroyed" ELSE value[v]]
     /\ string' = [v \in DOMAIN string |-> IF v \in dead THEN "freed" ELSE string[v]]
     /\ last' = [call |-> "destroy", ok |-> TRUE, valid |-> TRUE]
     /\ UNCHANGED <<items, sub, errno, args, file, saved, calls>>

Done == live = {} /\ UNCHANGED vars

Next == \/ sc_options_parse \/ Modify \/ sc_options_save \/ sc_options_load_ini \/ Edit \/ sc_options_load_json
        \/ sc_options_load_args \/ (\E o \in live : sc_options_destroy(o)) \/ Done

Spec == Init /\ [][Next]_vars

-----------------------------------------------------------------------------
(* Loading a file right after any changes restores all options that were      *)
(* saved to it, and loading its arguments restores those (sc_options.h: "Save *)
(* all options and arguments to a file").                                     *)
SavedIsLoaded ==
  saved # <<>> =>
    /\ last.call = "load" => last.ok /\ \A it \in Range(items) : Savable(it) => value[it.var] = saved.value[it.var]
    /\ last.call = "load_args" => last.ok /\ args.argv = saved.argv

(* The names and the values that the format can hold.  A name is unique when  *)
(* lowered, and an option without one follows an option of the section        *)
(* "Options".  A switch is below 10, a size_t within LLONG_MAX, a double      *)
(* needs at most 16 digits, and a string is not NULL.                         *)
PlainNames ==
  LET key(it) == IF it.name = <<>> THEN <<Lower(it.char)>> ELSE [i \in 1 .. Len(it.name) |-> Lower(it.name[i])]
      its == SelectSeq(items, Savable)
  IN \A i \in 1 .. Len(its) :
       /\ \A j \in 1 .. i - 1 : key(its[i]) # key(its[j])
       /\ its[i].name = <<>> => \E j \in 1 .. i - 1 : Len(its[j].name) = 1 /\ \A k \in j + 1 .. i : its[k].name = <<>>
PlainValue(it) ==
  saved.value[it.var] \notin CASE it.type = "SWITCH" -> {"10"} [] it.type = "SIZE_T" -> {"llong+"}
                               [] it.type = "DOUBLE" -> {"d17"} [] it.type = "STRING" -> {NONE} [] OTHER -> {}

(* Saving and loading is exact for such options, whatever happened to the     *)
(* variables in between.                                                      *)
PlainIsLoaded ==
  saved # <<>> /\ PlainNames /\ (\A it \in Range(items) : Savable(it) => PlainValue(it)) => SavedIsLoaded

(* A JSON file that gives every option a value of its type sets them all,     *)
(* whether it holds the suboptions in an object or under their full names.    *)
JsonIsLoaded ==
  last.call = "load_json" /\ last.valid =>
    /\ last.ok
    /\ \A it \in Range(items) : Savable(it) =>
         value[it.var] = CASE it.type \in {"BOOL", "SWITCH"} -> "1" [] it.type = "KEYVALUE" -> "2"
                           [] OTHER -> JsonValue(it, 1)

(* A string lives exactly as long as an object with an option for it, the     *)
(* user's variable never dangles, whichever object goes first, and saving     *)
(* follows a change the user made to it.                                      *)
StringsStayValid ==
  \A v \in Strings(items) :
    /\ rc[v] = (IF "main" \in live THEN 1 ELSE 0) + (IF "sub" \in live /\ v \in Strings(sub) THEN 1 ELSE 0)
    /\ (rc[v] = 0) = (value[v] = "destroyed") /\ (rc[v] = 0) = (string[v] = "freed")
    /\ last.call = "save" /\ last.ok => string[v] = value[v]

(* sc_options_parse returns -1 on an invalid option only (sc_options.h), and  *)
(* then marks the arguments as not parsed.                                    *)
ValidIsAccepted == last.call = "parse" => /\ last.valid => last.ok
                                          /\ last.ok = (args.first >= 0)
=============================================================================
