------------------------------ MODULE Options --------------------------------
(***************************************************************************)
(* The command lines of av1_screen_bench, the DXGI probe and the debug      *)
(* probe: loops over the arguments that take one option at a time, with its  *)
(* value after an equals sign or in the next argument, whatever that is.    *)
(*                                                                          *)
(* A text is the sequence of its comma-separated items.  An argument is     *)
(* <<text>>, or <<key, text>> when it has an equals sign.                   *)
(***************************************************************************)
EXTENDS Integers, Sequences, FiniteSets, SequencesExt

CONSTANTS
    Tokens,     \* the arguments to try each command with
    MaxArgs     \* bound: arguments of a command

VARIABLES
    command,    \* "run", ..., "dxgi", "debug"; "none" when nothing is parsed
    args,
    next,       \* the argument looked at next
    options,    \* the text of each option
    outcome     \* "parsing", "ok", "help" or "error"

optionVars == <<command, args, next, options, outcome>>

\* What each command takes: its options, each with what kind of text it wants.
Corpora == {"--width", "--height", "--frames", "--fps", "--repeat"} \X {"positive"}
    \cup {"--input", "--output-dir"} \X {"path"}
    \cup {"--save-samples"} \X {"flag"} \cup {"--scene"} \X {"word"}

RunOptions == Corpora \cup {"-h", "--help"} \X {"help"}
    \cup {"--colors", "--variants"} \X {"set"}
    \cup {"--quality"} \X {"positive"} \cup {"--i444"} \X {"flag"}

HardwareOptions == Corpora \cup {"--qualities"} \X {"positives"}
    \cup {"--encoders"} \X {"names"} \cup {"--profiles"} \X {"set"}

RecordOptions ==
    {"--frames", "--fps", "--idle-timeout-ms", "--display"} \X {"positive"}
    \cup {"--start-delay-ms"} \X {"number"} \cup {"--output"} \X {"path"}
    \cup {"--capture"} \X {"word"}

ExportOptions == {"--input", "--output"} \X {"path"}
AnalyzeOptions == {"--input", "--decoded", "--output"} \X {"path"}

DxgiOptions == {"--display", "--duration", "--timeout-ms"} \X {"number"}
    \cup {"--wake", "--mode"} \X {"word"}
    \cup {"--jsonl", "--save-first"} \X {"path"}
    \cup {"--map-pointer-only", "--list-displays"} \X {"flag"}
    \cup {"-h", "--help"} \X {"helpflag"}

DebugOptions == {"--duration", "--interval-ms"} \X {"number"}
    \cup {"-h", "--help"} \X {"helpflag"}
    \cup {"--out"} \X {"path"} \cup {"--dump"} \X {"flag"}

Grammar(c) == CASE c = "run"            -> RunOptions
                [] c = "run-hw"         -> HardwareOptions
                [] c = "record"         -> RecordOptions
                [] c = "export-bgra"    -> ExportOptions
                [] c = "analyze-yuv420" -> AnalyzeOptions
                [] c = "dxgi"           -> DxgiOptions
                [] c = "debug"          -> DebugOptions

Keys(c) == {option[1] : option \in Grammar(c)}
Kind(c, key) == (CHOOSE option \in Grammar(c) : option[1] = key)[2]

Commands == {"run", "run-hw", "record", "export-bgra", "analyze-yuv420",
             "dxgi", "debug"}

\* A text of some items is the first part of an argument; "" has the item "".
\* After an equals sign there may be nothing.
ASSUME ArgumentAssumption ==
    /\ \A c \in Commands : \A arg \in Tokens[c] :
         /\ arg \in Seq(Seq(STRING)) /\ Len(arg) \in {1, 2}
         /\ arg[1] # << >>
    /\ MaxArgs \in Nat

\* The words some options know; here three of the eleven variants.
Words(key) ==
    CASE key = "--scene"    -> {"screen", "mixed"}
      [] key = "--colors"   -> {"full", "4096", "256", "16"}
      [] key = "--variants" -> {"baseline", "active-map", "combined"}
      [] key = "--profiles" -> {"default", "hq"}
      [] key = "--capture"  -> {"auto", "gdi"}
      [] key = "--wake"     -> {"none", "cursor", "redraw", "layered-window"}
      [] key = "--mode"     -> {"dxgi", "hybrid-gdi-bootstrap"}
AllOf(key) == IF key = "--variants" THEN <<"baseline", "active-map", "combined">>
                                    ELSE << >>

\* These are not optional.
Required(c) == IF c \in {"export-bgra", "analyze-yuv420"}
                 THEN Keys(c) ELSE {}

\* The probes know no equals sign.
Splits(c) == c \notin {"dxgi", "debug"}

Numbers == {"0", "1", "2"}
On == <<"on">>
Default == <<"default">>
Empty == << >>

ParsingInit(c, given) ==
    /\ command = c
    /\ args = given
    /\ next = 1
    /\ options = IF c = "none" THEN << >>
                               ELSE [key \in Keys(c) |-> Default]
    /\ outcome = IF c = "none" THEN "ok" ELSE "parsing"

-----------------------------------------------------------------------------

\* The items at some of the places, in their order.
At(items, places) ==
    [n \in 1 .. Cardinality(places) |->
        items[CHOOSE k \in places : Cardinality({j \in places : j < k}) = n - 1]]

\* `contains` before `push`: each item once, where it first stood.
WithoutRepeats(items) ==
    At(items, {k \in DOMAIN items : \A j \in 1 .. k - 1 : items[j] # items[k]})

\* Only --encoders and --profiles pass over empty items.
Filled(text) == At(text, {k \in DOMAIN text : text[k] # ""})
Items(key, text) == IF key \in {"--encoders", "--profiles"} THEN Filled(text)
                                                            ELSE text

\* Does the option take the text, and what does it keep of it?
Takes(kind, key, text) ==
    CASE kind = "path" -> TRUE
      [] kind \in {"number", "positive"} -> Len(text) = 1 /\ text[1] \in Numbers
      [] kind = "word" -> Len(text) = 1 /\ text[1] \in Words(key)
      [] kind = "positives" -> ToSet(text) \subseteq Numbers
      [] kind = "names" -> Filled(text) # << >>
      [] kind = "set" -> \/ text = <<"all">> /\ AllOf(key) # << >>
                         \/ /\ Items(key, text) # << >>
                            /\ ToSet(Items(key, text)) \subseteq Words(key)
Kept(kind, key, text) ==
    CASE kind = "set" -> IF text = <<"all">> THEN AllOf(key)
                                             ELSE WithoutRepeats(Items(key, text))
      [] OTHER -> Items(key, text)

\* An option is all of an argument up to the equals sign; with a comma in it
\* the text is the name of none.
KeyOf(arg) == IF Len(arg[1]) = 1 THEN arg[1][1] ELSE ""

\* Mutant: the next argument is looked at again as an option.
OptionValueKept(arg, following) ==
    IF Len(arg) = 2 /\ Splits(command)
      THEN [key |-> KeyOf(arg), text |-> arg[2], missing |-> arg[2] = Empty,
            used |-> 1]
      ELSE IF following = << >>
        THEN [key |-> "", text |-> Empty, missing |-> TRUE, used |-> 1]
        ELSE LET value == Head(following)
             IN  [key |-> IF Len(arg) = 2 THEN "=" ELSE KeyOf(arg),
                  text |-> IF Len(value) = 2 THEN <<"=">> ELSE value[1],
                  missing |-> FALSE, used |-> 1]

\* option_value: the key, the text ("missing" where there is none) and how
\* many arguments that were.
OptionValue(arg, following) ==
    IF Len(arg) = 2 /\ Splits(command)
      THEN [key |-> KeyOf(arg), text |-> arg[2], missing |-> arg[2] = Empty,
            used |-> 1]
      ELSE IF following = << >>
        THEN [key |-> "", text |-> Empty, missing |-> TRUE, used |-> 1]
        ELSE LET value == Head(following)
             IN  [key |-> IF Len(arg) = 2 THEN "=" ELSE KeyOf(arg),
                  text |-> IF Len(value) = 2 THEN <<"=">> ELSE value[1],
                  missing |-> FALSE, used |-> 2]

Parsing == outcome = "parsing" /\ next <= Len(args)

Plain(kinds) ==
    /\ Len(args[next]) = 1 /\ KeyOf(args[next]) \in Keys(command)
    /\ Kind(command, KeyOf(args[next])) \in kinds

ReadFlag ==
    /\ Parsing /\ Plain({"flag", "helpflag"})
    /\ options' = [options EXCEPT ![KeyOf(args[next])] = On]
    /\ next' = next + 1
    /\ UNCHANGED <<command, args, outcome>>

\* `run` answers with its help at once.
ReadHelp ==
    /\ Parsing /\ Plain({"help"})
    /\ outcome' = "error"
    /\ UNCHANGED <<command, args, next, options>>

ReadOption ==
    /\ Parsing /\ ~Plain({"flag", "helpflag", "help"})
    /\ LET read == OptionValue(args[next], SubSeq(args, next + 1, Len(args)))
           known == /\ ~read.missing
                    /\ read.key \in Keys(command)
                    /\ Kind(command, read.key) \notin {"flag", "helpflag", "help"}
       IN  IF known /\ Takes(Kind(command, read.key), read.key, read.text)
             THEN /\ options' = [options EXCEPT ![read.key] =
                        Kept(Kind(command, read.key), read.key, read.text)]
                  /\ next' = next + read.used
                  /\ UNCHANGED outcome
             ELSE /\ outcome' = "error"
                  /\ UNCHANGED <<options, next>>
    /\ UNCHANGED <<command, args>>

Positive(key) == Kind(command, key) \in {"positive", "positives"}

\* The checks after the loop; a probe asked for its help prints it.
Finish ==
    /\ outcome = "parsing" /\ next > Len(args)
    /\ outcome' =
         IF \/ \E key \in DOMAIN options : Positive(key) /\ "0" \in ToSet(options[key])
            \/ \E key \in Required(command) : options[key] = Default
           THEN "error"
         ELSE IF \E key \in DOMAIN options :
                   Kind(command, key) = "helpflag" /\ options[key] = On
           THEN "help" ELSE "ok"
    /\ UNCHANGED <<command, args, next, options>>

OptionsNext == ReadFlag \/ ReadHelp \/ ReadOption \/ Finish

-----------------------------------------------------------------------------
(* Properties.                                                              *)

\* The argument has its text with it, or takes the next one for it.
Joined(i) == Len(args[i]) = 2
TakesNext(i) ==
    ~Joined(i) /\ Kind(command, KeyOf(args[i])) \notin {"flag", "helpflag"}
Text(i) == CASE Joined(i) -> args[i][2]
             [] TakesNext(i) -> IF Joined(i + 1) THEN <<"=">> ELSE args[i + 1][1]
             [] OTHER -> On

\* What the last of an option's texts makes of it: of a list it takes the items,
\* of any other the text as it stands.
Says(key, text) ==
    IF Kind(command, key) \notin {"set", "names"} THEN options[key] = text
    ELSE ToSet(options[key]) =
           IF Kind(command, key) = "set" /\ text = <<"all">> THEN ToSet(AllOf(key))
                                                             ELSE ToSet(text) \ {""}

\* The first arguments, some of which are options, read from the left.
ReadFromLeft(heads, many) ==
    /\ \A i \in heads : KeyOf(args[i]) \in Keys(command)
    /\ \A i \in 1 .. many : i \in heads <=> ~(i - 1 \in heads /\ TakesNext(i - 1))
    /\ \A key \in Keys(command) :
         LET given == {i \in heads : KeyOf(args[i]) = key}
         IN  IF given = {} THEN options[key] = Default
             ELSE \E last \in given :
                    (\A j \in given : j <= last) /\ Says(key, Text(last))

\* A command that is taken means what stands there: read from the left, an
\* argument belongs to the option before it if that takes one, even if it
\* looks like an option itself, and is an option otherwise; of an option given
\* twice the last one counts, and nothing given is passed over.  No size or
\* count in it is zero, and a matrix has no cell twice by repeating a colour,
\* variant or profile.
OptionsAreRead ==
    (command # "none" /\ outcome \in {"ok", "help"}) =>
        /\ \E heads \in SUBSET DOMAIN args : ReadFromLeft(heads, Len(args))
        /\ \A key \in Keys(command) :
             /\ Positive(key) => "0" \notin ToSet(options[key])
             /\ Kind(command, key) = "set" => IsInjective(options[key])
             /\ options[key] # << >>

=============================================================================
