--------------------------- MODULE MCCommonLibrary ---------------------------
(***************************************************************************)
(* The circular buffer, and the parts of the system that are functions     *)
(* rather than processes: the mathematical and the string utilities, the   *)
(* decoding of what sensors send; and what is kept as JSON, with the       *)
(* schema of configurations (StoredRecords).                               *)
(*                                                                         *)
(* They share no state, so that a behaviour is one of one of them, chosen  *)
(* at the start: TLC explores the sum of their states, not the product.    *)
(***************************************************************************)
EXTENDS CircularBuffer, StoredRecords, Integers

VARIABLES xs, ys, missing, m, n,                   \* MathUtils
          text, mark,                              \* StringUtils
          msb, lsb, xlsb, setting, rate, readings  \* SensorDecoding

MCBulks == UNION {[1 .. k -> Elem] : k \in 0 .. 3}

-----------------------------------------------------------------------------
(* Rules on three members, one of them an object, and values that some of  *)
(* them accept.                                                            *)

MCRules ==
    {[key |-> <<"a">>, type |-> "integer", required |-> TRUE, min |-> 2,
      max |-> 8, default |-> "4"],
     [key |-> <<"a">>, type |-> "float", minFloat |-> 3, default |-> "1.5"],
     [key |-> <<"b">>, type |-> "string", pattern |-> "word", minLength |-> 1,
      default |-> "up"],
     [key |-> <<"b">>, type |-> "string", enum |-> {"up"}, format |-> "hostname"],
     [key |-> <<"b">>, type |-> "integer", default |-> "up"],
     [key |-> <<"c">>, type |-> "object", nullable |-> TRUE,
      nested |-> [k \in {<<"e">>} |-> [key |-> <<"e">>, type |-> "string"]],
      properties |-> [p \in {<<"d">>} |->
          [key |-> <<"d">>, type |-> "boolean", required |-> TRUE,
           default |-> "true"]]],
     [key |-> <<"c">>, type |-> "array", maxItems |-> 1, requiredWith |-> {<<"b">>}],
     [key |-> <<"c", "d">>, type |-> "boolean", required |-> TRUE,
      default |-> "true"],
     [key |-> <<"c", "d">>, type |-> "boolean", default |-> "true",
      requiredWithout |-> {<<"a">>}]}
MCValue(node) == [p \in {<<>>} |-> node]
MCNodes ==
    {[num |-> 1], [num |-> 4], [num |-> 20], [str |-> "up"], [nul |-> TRUE],
     [list |-> <<MCValue([str |-> "up"])>>],
     [list |-> <<MCValue([num |-> 4]), MCValue([num |-> 4])>>], [obj |-> TRUE]}
MCPaths == {<<<<"a">>>>, <<<<"b">>>>, <<<<"c">>>>, <<<<"c">>, <<"d">>>>}
MCMatching == {<<"up", "word">>, <<"up", "hostname">>}
MCNumberRead == [t \in {"4", "1.5", "2"} |->
                  CASE t = "4" -> 8 [] t = "1.5" -> 3 [] t = "2" -> 4]

\* Rules in rules are treated as rules are.
MCValidateNested(v, r) == Schema!ValidateNode(v, r)
MCKeysNested(r, key)   == Schema!KeysBelow(r, key)

-----------------------------------------------------------------------------
(* Samples of up to three points, numbers up to 9, texts of up to three    *)
(* symbols, and the bytes at the ends of their ranges.                     *)

Math == INSTANCE MathUtils WITH
    Points <- {-1, 0, 2}, MaxSample <- 3, Numbers <- -3 .. 9

Strings == INSTANCE StringUtils WITH
    Texts <- {"a", "B", " ", "&", "lt;", "+", "_", "quote", "backslash"},
    Marks <- {"a", " ", "_"}, MaxText <- 3, MaxMark <- 2

Decoding == INSTANCE SensorDecoding WITH
    Bytes <- {0, 1, 15, 16, 127, 128, 170, 255}, Readings <- {-2, 3},
    Samples <- 3, Rates <- {1, 3, 4, 7, 200, 999, 1000, 2000}

-----------------------------------------------------------------------------
(* Three edits of the configuration file, valid and not; events of every   *)
(* type and the filters that tell them apart; readings with numbers and    *)
(* without; two devices of three types, over restarts.                     *)

MCEdits ==
    {<<"discovery", "maxDevices", 0>>, <<"discovery", "scanParams", {"p"}>>,
     <<"monitoring", "healthThreshold", 101>>,
     <<"security", "requireAuthentication", TRUE>>,
     <<"security", "authTokens", {"t"}>>, <<"security", "enabled", FALSE>>,
     <<"defaults", "retryCount", -1>>, <<"storage", "enabled", FALSE>>,
     <<"storage", "maxBackups", 0>>, <<"general", "custom", {"c"}>>,
     <<"general", "debugMode", TRUE>>}

AnyEvent == [types |-> {}, deviceIds |-> {}, categories |-> {}, sources |-> {},
             tags |-> <<>>, minSeverity |-> 0, maxSeverity |-> 10,
             correlationId |-> ""]
MCFilters ==
    {AnyEvent, [AnyEvent EXCEPT !.minSeverity = 7],
     [AnyEvent EXCEPT !.types = {1, 9}, !.maxSeverity = 5],
     [AnyEvent EXCEPT !.deviceIds = {"d", "*"}, !.tags = [zone |-> "x"]],
     [AnyEvent EXCEPT !.categories = {"data"}, !.sources = {"x"},
                      !.correlationId = "x"]}
MCTags == {<<>>, [zone |-> "x"]}

MCMeasurements == {{0}, {7}, {}}
MCParams == {<<>>, [p |-> "1"]}

ASSUME InstanceAssumption ==
    /\ Math!MathAssumption
    /\ Decoding!DecodingAssumption
    /\ StoredAssumption /\ Types \subseteq Records!TypeNames

-----------------------------------------------------------------------------
\* A part that does not run.
Idle == "idle"
IdleSchema == rules = Idle /\ config = Idle
IdleMath == xs = Idle /\ ys = Idle /\ missing = Idle /\ m = Idle /\ n = Idle
IdleStrings == text = Idle /\ mark = Idle
IdleDecoding == /\ msb = Idle /\ lsb = Idle /\ xlsb = Idle /\ setting = Idle
                /\ rate = Idle /\ readings = Idle
IdleConfiguration == settings = Idle /\ file = Idle /\ refused = Idle /\ edits = Idle
IdleEvents == origin = Idle /\ event = Idle /\ way = Idle
IdleReadings == measured = Idle /\ reading = Idle /\ asText = Idle /\ passes = Idle
IdleRecords == /\ creators = Idle /\ manager = Idle /\ initialized = Idle
               /\ records = Idle /\ given = Idle /\ saved = Idle
               /\ threw = Idle /\ changed = Idle

MCInit ==
    /\ which \in {"buffer", "schema", "math", "strings", "decoding",
                  "configuration", "events", "readings", "records"}
    /\ Init /\ (which # "buffer" => capacity = 2)
    /\ IF which = "math" THEN Math!Init ELSE IdleMath
    /\ IF which = "strings" THEN Strings!Init ELSE IdleStrings
    /\ IF which = "decoding" THEN Decoding!Init ELSE IdleDecoding
    /\ StoredInit
    /\ which # "configuration" => IdleConfiguration
    /\ which # "events" => IdleEvents
    /\ which # "readings" => IdleReadings
    /\ which # "records" => IdleRecords
    /\ which # "schema" => IdleSchema

mathVars     == <<xs, ys, missing, m, n>>
stringVars   == <<text, mark>>
decodingVars == <<msb, lsb, xlsb, setting, rate, readings>>
utilityVars == <<mathVars, stringVars, decodingVars>>
allVars == <<vars, utilityVars, storedVars>>

\* A step of a part is none of the others.
Only(part) == /\ which = part /\ UNCHANGED storedVars
              /\ IF part = "buffer" THEN TRUE ELSE UNCHANGED vars
              /\ IF part = "math" THEN TRUE ELSE UNCHANGED mathVars
              /\ IF part = "strings" THEN TRUE ELSE UNCHANGED stringVars
              /\ IF part = "decoding" THEN TRUE ELSE UNCHANGED decodingVars

MCNext == \/ Only("buffer") /\ Next
          \/ Only("math") /\ Math!Next
          \/ Only("strings") /\ Strings!Next
          \/ Only("decoding") /\ Decoding!Next
          \/ StoredNext /\ UNCHANGED <<vars, utilityVars>>

MCSpec == MCInit /\ [][MCNext]_allVars

-----------------------------------------------------------------------------
\* MathUtils, StringUtils and the drivers' decoding compute what a definition of its own
\* says of each, which is what they are named for but where it says so.
FunctionsAgree ==
    /\ which = "math"     => Math!NumbersAgree /\ Math!SamplesAgree
    /\ which = "strings"  => /\ Strings!UndoneAgree /\ Strings!FormsAgree
                            /\ Strings!CutsAgree /\ Strings!DistancesAgree
    /\ which = "decoding" => Decoding!BytesDecoded /\ Decoding!QuantitiesRight
=============================================================================
