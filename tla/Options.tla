------------------------------ MODULE Options ------------------------------
(***************************************************************************)
(* The option package of SimpleScalar (options.c) and how main.c uses it:  *)
(* options registered with defaults, the command line, configuration files *)
(* that may name others, and -dumpconfig, which writes a file meant to be  *)
(* read back with -config.                                                 *)
(*                                                                         *)
(* A word of a command line or a file is a record with one field: opt (the *)
(* word is an option's name), num (an integer), dec (a number written with *)
(* a decimal point, in units of 0.00001) or str (any other text, as the    *)
(* sequence of its parts between blanks).  The value of a float or a       *)
(* double is a dec, small enough for its five decimals to be exact.  The   *)
(* lengths of lines (1024 characters, 256 words) are left out.             *)
(***************************************************************************)
EXTENDS Integers, Sequences, FiniteSets, SequencesExt

CONSTANTS
  Opts,          \* sequence of [name, oc, nvars, list, print, accrue, def]
  emap,          \* sequence of the strings of the enumeration options
  Hashed,        \* the parts of texts that begin with '#'
  ConfigFiles,   \* file name -> sequence of lines, each a sequence of words
  CommandLines   \* the command lines (argv without the program's name)

VARIABLES
  phase,         \* "start", "ran" or "reloaded"
  odb,           \* option name -> [var, nelt]: the option variables
  files,         \* the files on disk
  first          \* observer: what the first run left, [odb, err, exec_index]

vars == <<phase, odb, files, first>>

NULL == [null |-> 0]

True  == [str |-> <<"true">>]
False == [str |-> <<"false">>]

Opt(name) == Opts[SelectInSeq(Opts, LAMBDA o : o.name = name)]

-----------------------------------------------------------------------------
(* Registration.  An option has nvars variables; a list also counts the    *)
(* elements that are in use.                                               *)

\* The defaults: those of a list fill its first *nelt elements, the others keep
\* what the array held.
Defaults(o) == [i \in 1 .. o.nvars |-> IF i <= Len(o.def) THEN o.def[i] ELSE NULL]

\* opt_reg_int(), opt_reg_int_list() and their like.
opt_reg(o) == [var |-> Defaults(o), nelt |-> IF o.list THEN Len(o.def) ELSE 0]

\* opt_reg_enum(), opt_reg_enum_list(): the default is given as a string, the
\* first of the enumeration if there is none, and fills a list.
opt_reg_enum(o) ==
  LET enum_val == IF o.def[1] = NULL THEN emap[1]
                  ELSE CHOOSE w \in Range(emap) : w = o.def[1]
  IN  opt_reg([o EXCEPT !.def = [i \in DOMAIN @ |-> enum_val]])

Registered ==
  [name \in {o.name : o \in Range(Opts)} |->
     IF Opt(name).oc = "enum" THEN opt_reg_enum(Opt(name)) ELSE opt_reg(Opt(name))]

-----------------------------------------------------------------------------
(* One option and its arguments.                                           *)

Negative(w) == ("num" \in DOMAIN w /\ w.num < 0) \/ ("dec" \in DOMAIN w /\ w.dec < 0)

\* A word that begins with a dash; some classes accept a negative number.
Dash(oc, w) ==
  \/ "opt" \in DOMAIN w
  \/ Negative(w) /\ oc \notin {"int", "float", "double"}

TrueWords  == {True, [str |-> <<"on">>], [num |-> 1]}
FalseWords == {False, [str |-> <<"off">>], [num |-> 0]}

\* strtod(): every number, whichever way it is written.
strtod(w) ==
  CASE "num" \in DOMAIN w -> {[dec |-> 100000 * w.num]}
    [] "dec" \in DOMAIN w -> {w}
    [] OTHER -> {}

\* The conversion of an argument: the empty set when it is refused.  An integer
\* stops at a decimal point; a float has to be at least FLT_MIN, which is
\* positive and below every other dec.
Convert(oc, w) ==
  CASE oc \in {"int", "uint"} -> IF "num" \in DOMAIN w THEN {w} ELSE {}
    [] oc = "double" -> strtod(w)
    [] oc = "float" -> {v \in strtod(w) : v.dec > 0}
    [] oc = "enum" -> {w} \cap Range(emap)
    [] oc = "flag" -> IF w \in TrueWords THEN {True} ELSE IF w \in FalseWords THEN {False} ELSE {}
    [] oc = "string" -> {w}

Fatal(st, err) == [st EXCEPT !.err = err]

Store(entry, from, vals) ==
  [entry EXCEPT !.var = [i \in DOMAIN @ |->
     IF i \in from + 1 .. from + Len(vals) THEN vals[i - from] ELSE @[i]]]

\* process_option(): the arguments end at a word that begins with a dash, when
\* the option has enough of them, and, for a flag, at a word that is no truth
\* value, which sets the flag.  A list starts over unless it accrues, and then
\* it takes one argument at a time.
process_option(st, argv, index) ==
  LET known == {o \in Range(Opts) : o.name = argv[index].opt}
      o     == CHOOSE x \in known : TRUE
      entry == st.odb[o.name]
      none  == index = Len(argv) \/ Dash(o.oc, argv[index + 1])
      ent   == IF o.accrue /\ o.list THEN entry.nelt ELSE 0
      most  == IF o.accrue THEN 1 ELSE o.nvars
      rest  == SubSeq(argv, index + 1, Len(argv))
      Ends(w) == Dash(o.oc, w) \/ (o.oc = "flag" /\ Convert("flag", w) = {})
      stop  == SelectInSeq(rest, Ends)
      cnt   == LET avail == IF stop = 0 THEN Len(rest) ELSE stop - 1
               IN  IF avail < most THEN avail ELSE most
      args  == SubSeq(rest, 1, cnt)
      vals  == [i \in 1 .. cnt |-> CHOOSE v \in Convert(o.oc, args[i]) : TRUE]
      \* a word that is no truth value sets the variable it was meant for
      sets  == o.oc = "flag" /\ cnt < most /\ stop = cnt + 1 /\ ~Dash(o.oc, rest[stop])
      taken == Store(entry, ent, IF sets THEN Append(vals, True) ELSE vals)
      nelt  == IF ~o.list THEN 0 ELSE ent + cnt
  IN  CASE known = {} -> Fatal(st, "undefined option")
        [] known # {} /\ none /\ o.oc # "flag" -> Fatal(st, "requires an argument")
        [] known # {} /\ none /\ o.oc = "flag" ->
             [st EXCEPT !.odb[o.name] = Store(entry, 0, <<True>>), !.index = index + 1]
        [] known # {} /\ ~none /\ ent >= o.nvars -> Fatal(st, "too many invocations")
        [] known # {} /\ ~none /\ ent < o.nvars /\ \E a \in Range(args) : Convert(o.oc, a) = {} ->
             Fatal(st, "could not parse argument")
        [] OTHER -> [st EXCEPT !.odb[o.name] = [taken EXCEPT !.nelt = nelt],
                               !.index = index + 1 + cnt]

-----------------------------------------------------------------------------
(* -dumpconfig.                                                            *)

opt_null_string(o, entry) ==
  o.oc = "string" /\ IF o.list THEN entry.nelt = 0 ELSE entry.var[1] = NULL

\* "%12.4f", "%.4f": the nearest number with four decimals.  Which of two equally
\* near ones it is depends on bits that are left out; no value is one of these.
Rounded(dec) == 10 * ((dec + 5) \div 10)

\* The words a value is printed as.  A text with blanks is several words.
Printed(oc, w) ==
  CASE w = NULL -> <<[str |-> <<"<null>">>]>>
    [] oc \in {"float", "double"} -> <<[dec |-> Rounded(w.dec)]>>
    [] "str" \in DOMAIN w -> [i \in DOMAIN w.str |-> [str |-> <<w.str[i]>>]]
    [] OTHER -> <<w>>

\* opt_print_option()
opt_print_option(o, entry) ==
  FlattenSeq([i \in 1 .. (IF o.list THEN entry.nelt ELSE 1) |-> Printed(o.oc, entry.var[i])])

CommentSign == [str |-> <<"#">>]

dump_config_all(db) ==
  LET Line(o) == (IF ~o.print THEN <<CommentSign>> ELSE <<>>)
                   \o <<[opt |-> o.name]>> \o opt_print_option(o, db[o.name])
  IN  [i \in DOMAIN Opts |-> Line(Opts[i])]

\* opt_print_options(): an option that is not to be printed, or a string that
\* is not set, becomes a comment.  The descriptions, comments too, are left out.
dump_config(db) ==
  LET Line(o) == (IF ~o.print \/ opt_null_string(o, db[o.name]) THEN <<CommentSign>> ELSE <<>>)
                   \o <<[opt |-> o.name]>> \o opt_print_option(o, db[o.name])
  IN  [i \in DOMAIN Opts |-> Line(Opts[i])]

-----------------------------------------------------------------------------
(* The command line.                                                       *)

RECURSIVE opt_process_line(_, _, _)

\* A line up to the first word that begins with '#'.
Uncommented(line) ==
  LET k == SelectInSeq(line, LAMBDA w : "str" \in DOMAIN w /\ w.str[1] \in Hashed)
  IN  IF k = 0 THEN line ELSE SubSeq(line, 1, k - 1)

\* process_file(): every line that has words before its comment is a command
\* line of its own.
process_file(st, fname, depth) ==
  IF fname \notin DOMAIN st.files THEN Fatal(st, "could not open configuration file")
  ELSE FoldLeft(LAMBDA s, line : IF s.err # "" \/ Uncommented(line) = <<>> THEN s
                                 ELSE opt_process_line(s, Uncommented(line), depth + 1),
                st, st.files[fname])

\* A file name after -config and -dumpconfig.
FileName(argv, index) ==
  IF index < Len(argv) /\ "str" \in DOMAIN argv[index + 1] THEN argv[index + 1].str[1] ELSE ""

RECURSIVE Words(_, _, _, _)

\* The loop of __opt_process_options().  The first word that is no option's
\* is the program to run: it ends the command line, and is refused in a file.
\* The dump is the last thing done, with the values of that moment.
Words(st, argv, depth, dumpto) ==
  LET w == argv[st.index]
      f == FileName(argv, st.index)
  IN  CASE st.err # "" -> st
        [] st.err = "" /\ st.index > Len(argv) ->
             IF dumpto = "" THEN st
             ELSE [st EXCEPT !.files = [x \in DOMAIN @ \cup {dumpto} |->
                                          IF x = dumpto THEN dump_config(st.odb) ELSE @[x]]]
        [] st.err = "" /\ st.index <= Len(argv) /\ ~Dash("string", w) ->
             IF depth > 0 THEN Fatal(st, "orphan in a configuration file")
             ELSE Words([st EXCEPT !.exec_index = st.index, !.index = Len(argv) + 1],
                        argv, depth, dumpto)
        [] st.err = "" /\ st.index <= Len(argv) /\ w = [opt |-> "-config"] ->
             IF f = "" THEN Fatal(st, "requires an argument")
             ELSE Words([process_file(st, f, depth) EXCEPT !.index = st.index + 2],
                        argv, depth, dumpto)
        [] st.err = "" /\ st.index <= Len(argv) /\ w = [opt |-> "-dumpconfig"] ->
             IF f = "" THEN Fatal(st, "requires an argument")
             ELSE Words([st EXCEPT !.index = @ + 2], argv, depth, f)
        [] OTHER ->
             IF "opt" \notin DOMAIN w THEN Fatal(st, "undefined option")
             ELSE Words(process_option(st, argv, st.index), argv, depth, dumpto)

opt_process_line(st, argv, depth) ==
  [Words([st EXCEPT !.index = 1], argv, depth, "") EXCEPT !.index = st.index]

Start == [odb |-> Registered, files |-> files, index |-> 1, err |-> "", exec_index |-> 0]

opt_process_options(argv) == opt_process_line(Start, argv, 0)

-----------------------------------------------------------------------------
(* One run of a simulator that dumps its configuration, and a later one    *)
(* that is given nothing but that configuration.                           *)

Init ==
  /\ phase = "start"
  /\ odb = Registered
  /\ files = ConfigFiles
  /\ first = <<>>

Run(argv) ==
  LET st == opt_process_options(argv)
  IN  /\ phase = "start"
      /\ phase' = "ran"
      /\ odb' = st.odb /\ files' = st.files
      /\ first' = <<[odb |-> st.odb, err |-> st.err, exec_index |-> st.exec_index]>>

Reload ==
  LET st == opt_process_options(<<[opt |-> "-config"], [str |-> <<"dumped">>]>>)
  IN  /\ phase = "ran" /\ "dumped" \in DOMAIN files
      /\ phase' = IF st.err = "" THEN "reloaded" ELSE "refused"
      /\ odb' = st.odb
      /\ UNCHANGED <<files, first>>

Next ==
  \/ \E argv \in CommandLines : Run(argv)
  \/ Reload

Spec == Init /\ [][Next]_vars

-----------------------------------------------------------------------------
\* What a configuration file can say: one element of a list that accrues, at
\* least one element of any other list, no text that is empty, has blanks in it
\* or begins with a dash or a '#', no unset element, no negative number for a
\* class that takes it for an option, and no float that is nearer to 0 than to
\* 0.0001.
Dumpable(o, entry) ==
  LET n == IF o.list THEN entry.nelt ELSE 1
  IN  /\ n >= 1
      /\ o.accrue => n <= 1
      /\ \A i \in 1 .. n :
           LET w == entry.var[i]
           IN  /\ w # NULL /\ ~Dash(o.oc, w)
               /\ "str" \in DOMAIN w => Len(w.str) = 1 /\ w.str[1] \notin Hashed
               /\ o.oc = "float" => w.dec > 5

InUse(o, entry) == SubSeq(entry.var, 1, IF o.list THEN entry.nelt ELSE 1)

\* A value and what it becomes: floats and doubles keep four decimals.
Same(o, old, new) ==
  IF o.oc \in {"float", "double"} THEN new.dec % 10 = 0 /\ new.dec - old.dec \in -5 .. 5
  ELSE new = old

Settings(file) == [k \in DOMAIN file |-> Uncommented(file[k])]

\* The file that -dumpconfig writes restores the configuration: if every option
\* that is printed has a value a file can say, the file is accepted by a later
\* run, and that run has the same values in the options that are printed, a
\* float or a double to four decimals, and the defaults in the others, whatever
\* mix of options, configuration files and repeated options the first run was
\* given.  Nothing more is lost by doing it again: the later run would dump the
\* same settings.
ConfigRoundTrip ==
  phase \in {"reloaded", "refused"} =>
    LET db == first[1].odb
        Said == {o \in Range(Opts) : o.print /\ ~opt_null_string(o, db[o.name])}
    IN  (\A o \in Said : Dumpable(o, db[o.name])) =>
          /\ phase = "reloaded"
          /\ \A o \in Range(Opts) :
               LET new == InUse(o, odb[o.name])
                   old == InUse(o, db[o.name])
               IN  IF o \in Said
                   THEN Len(new) = Len(old) /\ \A k \in DOMAIN new : Same(o, old[k], new[k])
                   ELSE new = InUse(o, Registered[o.name])
          /\ Settings(dump_config(odb)) = Settings(files["dumped"])
=============================================================================
